---- MODULE Spec2Model ----
(***************************************************************************)
(* Model of the repair-shop management back end: the relational store     *)
(* (db/schema.ts) and the record handlers that read and write it          *)
(* (handlers/*.ts).  No handler opens a database transaction, so a step   *)
(* of the model is one statement that a handler awaits, together with the *)
(* JavaScript that runs up to the next await.  A handler is one action:   *)
(* the first statement of a new call, or the next statement of the call   *)
(* the caller has in flight.  A call that throws leaves in the store      *)
(* whatever its statements have written before the throw.                 *)
(*                                                                         *)
(* A decimal is counted in units of 10^-5 (Cent = 1000 units, Unit =      *)
(* 100000), a JavaScript number that a handler computes is an IEEE-754    *)
(* double, and a numeric(10,2) column keeps whole cents.  Timestamps are  *)
(* clock ticks, calendar dates are day numbers.                           *)
(***************************************************************************)
EXTENDS Integers, Sequences, FiniteSets, TLC

(* ------------------------------ bounds --------------------------------- *)
MaxCustomers == 2
MaxSuppliers == 1
MaxProducts == 2
MaxServices == 1
MaxTransactions == 1
MaxTransactionItems == 2
MaxServiceItems == 2
MaxInvoices == 2
MaxQty == 2
MaxStock == 3
MaxCart == 2
MaxClock == 2

(* --------------------------- value encoding ---------------------------- *)
\* SQL NULL / JavaScript null in a numeric, id or date position.
NULL == 0 - 1
\* SQL NULL / JavaScript null in a text position.
NULLT == "null"
\* One calendar day lasts this many clock ticks.
TicksPerDay == 2

Has(input, f) == f \in DOMAIN input

\* One hundredth of the currency unit, and the unit itself, in units of 10^-5.
Cent == 1000
Unit == 100 * Cent

\* numeric(10,2) of a decimal that the client sent: value.toString() of a
\* number read from a decimal of a few digits gives the decimal back, and the
\* store rounds it to two places, half away from zero (never negative here).
ToNumeric2(x) == ((x + (Cent \div 2)) \div Cent) * Cent

\* A date column keeps the calendar day of the timestamp written to it.
ToDate(timestamp) == timestamp \div TicksPerDay

\* date.toISOString().split('T')[0], null for a missing date.
formatDateForDB(date) == IF date = NULL THEN NULL ELSE ToDate(date)

\* JavaScript `input.f || null` on an optional nullable text field.
TextOrNull(input, f) ==
  IF Has(input, f) /\ input[f] # NULLT /\ input[f] # "" THEN input[f] ELSE NULLT

\* JavaScript `input.f || dflt` on an optional nullable number: undefined,
\* null and 0 are all falsy.
NumOr(input, f, dflt) ==
  IF Has(input, f) /\ input[f] # NULL /\ input[f] # 0 THEN input[f] ELSE dflt

Insert(table, id, row) == table @@ (id :> row)
DeleteRow_all(table, id) == [i \in {} |-> table[i]]
DeleteRow(table, id) == [i \in DOMAIN table \ {id} |-> table[i]]
SetRow(table, id, row) == [table EXCEPT ![id] = row]

RECURSIVE SumOver(_, _)
SumOver(S, f) ==
  IF S = {} THEN 0
  ELSE LET x == CHOOSE y \in S : TRUE IN f[x] + SumOver(S \ {x}, f)

(* --------------------------- JavaScript numbers ------------------------ *)
\* A JavaScript number is an IEEE-754 double: a sign, a significand m of 53
\* bits and an exponent e, of value m * 2^e.  The significand is kept as four
\* limbs of 14 bits, least significant first; every result is rounded to the
\* nearest double, ties to the even significand.
Limb == 16384
LimbBits == 14
SignificandBits == 53

RECURSIVE Pow2(_)
Pow2(n) == IF n = 0 THEN 1 ELSE 2 * Pow2(n - 1)

\* The limbs of a * k + carry, for k below 2^16.
RECURSIVE BigMulSmall(_, _, _)
BigMulSmall(a, k, carry) ==
  IF a = <<>>
  THEN IF carry = 0 THEN <<>>
       ELSE <<carry % Limb>> \o BigMulSmall(a, k, carry \div Limb)
  ELSE LET t == Head(a) * k + carry
       IN <<t % Limb>> \o BigMulSmall(Tail(a), k, t \div Limb)

RECURSIVE BigAdd(_, _, _)
BigAdd(a, b, carry) ==
  IF a = <<>> /\ b = <<>>
  THEN IF carry = 0 THEN <<>> ELSE <<carry>>
  ELSE LET t == (IF a = <<>> THEN 0 ELSE Head(a))
                + (IF b = <<>> THEN 0 ELSE Head(b)) + carry
       IN <<t % Limb>> \o BigAdd(IF a = <<>> THEN a ELSE Tail(a),
                                 IF b = <<>> THEN b ELSE Tail(b), t \div Limb)

\* a - b for a >= b.
RECURSIVE BigSub(_, _, _)
BigSub(a, b, borrow) ==
  IF a = <<>> THEN <<>>
  ELSE LET t == Head(a) - (IF b = <<>> THEN 0 ELSE Head(b)) - borrow
       IN <<(t + Limb) % Limb>>
            \o BigSub(Tail(a), IF b = <<>> THEN b ELSE Tail(b),
                      IF t < 0 THEN 1 ELSE 0)

RECURSIVE BigMul(_, _)
BigMul(a, b) ==
  IF b = <<>> THEN <<>>
  ELSE BigAdd(IF Head(b) = 0 THEN <<>> ELSE BigMulSmall(a, Head(b), 0),
              <<0>> \o BigMul(a, Tail(b)), 0)

\* Quotient q and remainder r of the limbs a[1..i] by d, for d below 2^16.
RECURSIVE BigDivSmall(_, _, _, _)
BigDivSmall(a, d, i, rem) ==
  IF i = 0 THEN [q |-> <<>>, r |-> rem]
  ELSE LET t == rem * Limb + a[i]
           rest == BigDivSmall(a, d, i - 1, t % d)
       IN [q |-> rest.q \o <<t \div d>>, r |-> rest.r]

RECURSIVE IntBits(_)
IntBits(n) == IF n = 0 THEN 0 ELSE 1 + IntBits(n \div 2)

\* The number of bits of a: the position of its leading 1.
RECURSIVE BigBits(_)
BigBits(a) ==
  IF a = <<>> THEN 0
  ELSE IF a[Len(a)] = 0 THEN BigBits(SubSeq(a, 1, Len(a) - 1))
  ELSE LimbBits * (Len(a) - 1) + IntBits(a[Len(a)])

BigShl(a, n) ==
  [i \in 1..(n \div LimbBits) |-> 0] \o BigMulSmall(a, Pow2(n % LimbBits), 0)

\* a shifted right by n bits, and whether a 1 was shifted out.
BigShr(a, n) ==
  LET k == n \div LimbBits
      kept == IF k >= Len(a) THEN <<>> ELSE SubSeq(a, k + 1, Len(a))
      d == BigDivSmall(kept, Pow2(n % LimbBits), Len(kept), 0)
  IN [q |-> d.q,
      sticky |-> d.r # 0 \/ \E i \in 1..k : i <= Len(a) /\ a[i] # 0]

RECURSIVE BigToInt(_)
BigToInt(a) == IF a = <<>> THEN 0 ELSE Head(a) + Limb * BigToInt(Tail(a))

BigOfInt(n) == <<n % Limb, (n \div Limb) % Limb, n \div (Limb * Limb)>>

RECURSIVE BigLess(_, _, _)
BigLess(a, b, i) ==
  IF i = 0 THEN FALSE
  ELSE LET x == IF i <= Len(a) THEN a[i] ELSE 0
           y == IF i <= Len(b) THEN b[i] ELSE 0
       IN IF x # y THEN x < y ELSE BigLess(a, b, i - 1)

Limbs4(a) == [i \in 1..4 |-> IF i <= Len(a) THEN a[i] ELSE 0]

\* The number 0.
Zero == [neg |-> FALSE, m |-> <<0, 0, 0, 0>>, e |-> 0]

\* The number of significand m, of 53 or 54 bits, and exponent e.
Normalised(neg, m, e) ==
  IF BigBits(m) > SignificandBits
  THEN [neg |-> neg, m |-> Limbs4(BigShr(m, 1).q), e |-> e + 1]
  ELSE [neg |-> neg, m |-> Limbs4(m), e |-> e]

\* Round to nearest, ties to even: q is the significand that is kept, half
\* the first bit that is dropped and sticky whether a later one is set.
RoundHalfEven(neg, q, e, half, sticky) ==
  Normalised(neg,
             IF half = 1 /\ (sticky \/ q[1] % 2 = 1)
             THEN BigAdd(q, <<1>>, 0) ELSE q,
             e)

\* t carries the 54 leading bits of the magnitude.
RoundKept(neg, t, e, sticky) ==
  RoundHalfEven(neg, BigShr(t.q, 1).q, e, t.q[1] % 2, t.sticky \/ sticky)

\* The double nearest to M * 2^e, M of n bits.
RoundBits(neg, M, e, sticky, n) ==
  IF n = 0 THEN Zero
  ELSE IF n <= SignificandBits
  THEN [neg |-> neg, m |-> Limbs4(BigShl(M, SignificandBits - n)),
        e |-> e - (SignificandBits - n)]
  ELSE RoundKept(neg, BigShr(M, n - SignificandBits - 1),
                 e + n - SignificandBits, sticky)

\* The double nearest to M * 2^e (plus a little more when sticky).
RoundToDouble(neg, M, e, sticky) == RoundBits(neg, M, e, sticky, BigBits(M))

\* The quotient of s by 10^5, in two divisions by less than 2^16.
DecimalQuotient(neg, d1, d2) ==
  RoundToDouble(neg, d2.q, 0 - 84, d1.r # 0 \/ d2.r # 0)

DecimalDivided(neg, d1) ==
  DecimalQuotient(neg, d1, BigDivSmall(d1.q, 10, Len(d1.q), 0))

DecimalScaled(neg, s) ==
  DecimalDivided(neg, BigDivSmall(s, 10000, Len(s), 0))

\* The number that a decimal denotes (a JSON number of the input, parseFloat
\* of a numeric column): the double nearest to x / 10^5.
Number(x) ==
  DecimalScaled(x < 0, BigShl(BigOfInt(IF x < 0 THEN 0 - x ELSE x), 84))

\* x * y
NumberTimes(x, y) ==
  RoundToDouble(x.neg # y.neg, BigMul(x.m, y.m), x.e + y.e, FALSE)

\* a - b or b - a, whichever is not negative, with the sign of the larger.
Difference(xneg, a, yneg, b, e, aLess) ==
  RoundToDouble(IF aLess THEN yneg ELSE xneg,
                IF aLess THEN BigSub(b, a, 0) ELSE BigSub(a, b, 0),
                e, FALSE)

\* The sum of a * 2^e and b * 2^e with their signs.
Aligned(xneg, a, yneg, b, e) ==
  IF xneg = yneg THEN RoundToDouble(xneg, BigAdd(a, b, 0), e, FALSE)
  ELSE Difference(xneg, a, yneg, b, e,
                  BigLess(a, b, IF Len(a) > Len(b) THEN Len(a) ELSE Len(b)))

SameExponent(x, y, e) ==
  Aligned(x.neg, BigShl(x.m, x.e - e), y.neg, BigShl(y.m, y.e - e), e)

\* x + y.  A sum of zeros is +0 unless both are -0, and no -0 arises here:
\* no handler multiplies by a negative number or negates.
NumberPlus(x, y) ==
  IF BigBits(x.m) = 0 THEN (IF BigBits(y.m) = 0 THEN Zero ELSE y)
  ELSE IF BigBits(y.m) = 0 THEN x
  ELSE IF x.e - y.e > 64 THEN x
  ELSE IF y.e - x.e > 64 THEN y
  ELSE SameExponent(x, y, IF x.e < y.e THEN x.e ELSE y.e)

\* x - y
NumberMinus(x, y) == NumberPlus(x, [y EXCEPT !.neg = ~y.neg])

\* The whole cents c of the magnitude of x, and one more when x is above c
\* cents and a half (half = 1), or when x is the double of exactly c cents
\* and a half (toString then prints c cents and a half).
CentsRounded(x, c, half, tie) ==
  IF half = 1 \/ (x.m = tie.m /\ x.e = tie.e) THEN c + 1 ELSE c

CentsOrTie(x, c, half) ==
  CentsRounded(x, c, half, Number((2 * c + 1) * (Cent \div 2)))

\* t carries the half cents of the magnitude of x.
HalfCents(x, t) ==
  CentsOrTie(x, BigToInt(BigShr(t.q, 1).q),
             (IF t.q = <<>> THEN 0 ELSE t.q[1]) % 2)

Cents(x) ==
  HalfCents(x, BigShr(BigMulSmall(x.m, 100, 0), (0 - x.e) - 1))

\* numeric(10,2) of x.toString(): toString prints the shortest decimal that
\* reads back as x, and the store rounds that decimal to two places, half
\* away from zero.
NumberToNumeric2(x) ==
  IF BigBits(x.m) = 0 THEN 0
  ELSE (IF x.neg THEN 0 - Cent ELSE Cent) * Cents(x)

(* ------------------------------- state --------------------------------- *)
VARIABLES
  customersTable,         \* id -> customer row
  suppliersTable,         \* id -> supplier row
  productsTable,          \* id -> product row
  servicesTable,          \* id -> service row
  transactionsTable,      \* id -> transaction row
  transactionItemsTable,  \* id -> transaction item row
  serviceItemsTable,      \* id -> service item row
  invoicesTable,          \* id -> invoice row
  serial,                 \* last value drawn from each table's id sequence
  now,                    \* the clock (new Date(), Date.now(), defaultNow())
  calls                   \* caller -> its call: the statement it is at, what
                          \* the handler holds in its local variables, the
                          \* store as the call found it, what it returned

tables == <<customersTable, suppliersTable, productsTable, servicesTable,
            transactionsTable, transactionItemsTable, serviceItemsTable,
            invoicesTable>>
vars == <<customersTable, suppliersTable, productsTable, servicesTable,
          transactionsTable, transactionItemsTable, serviceItemsTable,
          invoicesTable, serial, now, calls>>

Snapshot ==
  [customers |-> customersTable, suppliers |-> suppliersTable,
   products |-> productsTable, services |-> servicesTable,
   transactions |-> transactionsTable,
   transactionItems |-> transactionItemsTable,
   serviceItems |-> serviceItemsTable, invoices |-> invoicesTable]

\* The caller whose calls follow one another, and the callers whose calls
\* may overlap.
Main == 0
Callers == {1, 2}

\* What a handler keeps between its statements; clock is what new Date()
\* gave when the handler read it.
Locals ==
  [read |-> NULL, clock |-> NULL, type |-> NULLT, row |-> <<>>,
   invoice |-> <<>>,
   charge |-> Zero, subtotal |-> Zero, tax |-> Zero, total |-> Zero,
   items |-> <<>>, tx |-> 0, k |-> 1]

\* A call at statement pc; ret is what the caller has got back of it.
Call(op, input, pc) ==
  [pc |-> pc, op |-> op, input |-> input, at |-> now, pre |-> Snapshot,
   ret |-> [op |-> "pending", input |-> input, err |-> "none", id |-> 0]]
    @@ Locals

\* What the caller observes of a call: it returned (err = "none", id the row
\* it made or touched) or it threw (err names the error).
Finished(call, err, id) ==
  [call EXCEPT !.pc = "done",
               !.ret = [op |-> call.op, input |-> call.input, err |-> err,
                        id |-> id]]

Idle ==
  [pc |-> "idle", op |-> "none", input |-> <<>>, at |-> 0,
   pre |-> [customers |-> <<>>, suppliers |-> <<>>, products |-> <<>>,
            services |-> <<>>, transactions |-> <<>>,
            transactionItems |-> <<>>, serviceItems |-> <<>>,
            invoices |-> <<>>],
   ret |-> [op |-> "none", input |-> <<>>, err |-> "none", id |-> 0]]
    @@ Locals

At(c, pc) == calls[c].pc = pc

\* Caller c has no call in flight: it may start one.
Free(c) == calls[c].pc \in {"idle", "done"}

\* A new call of caller c has to meet P; a call in flight goes on.
Starting(c, P) == Free(c) => P

\* Caller c is in the middle of this call.
InCall(c, op, input) ==
  /\ ~Free(c)
  /\ calls[c].op = op
  /\ calls[c].input = input

\* A handler of one statement: the call starts and returns in one step.
Returned(c, op, input, err, id) ==
  /\ Free(c)
  /\ calls' = [calls EXCEPT ![c] = Finished(Call(op, input, "done"), err, id)]
  /\ UNCHANGED now

\* The first statement of a handler looks a row up: the call goes on to
\* statement pc when the row is found and throws not-found when it is not.
StartCall(c, op, input, found, pc) ==
  /\ Free(c)
  /\ calls' = [calls EXCEPT ![c] =
       IF found THEN Call(op, input, pc)
       ELSE Finished(Call(op, input, "done"), "not_found", 0)]

\* The handler throws or returns.
EndCall(c, err, id) ==
  calls' = [calls EXCEPT ![c] = Finished(calls[c], err, id)]

\* The last call of the main caller, and the store as that call found it.
result == calls[Main].ret
pre == calls[Main].pre

\* No call is in flight.
Quiet == \A c \in {Main} \cup Callers : Free(c)

Init ==
  /\ customersTable = <<>>
  /\ suppliersTable = <<>>
  /\ productsTable = <<>>
  /\ servicesTable = <<>>
  /\ transactionsTable = <<>>
  /\ transactionItemsTable = <<>>
  /\ serviceItemsTable = <<>>
  /\ invoicesTable = <<>>
  /\ serial = [customers |-> 0, suppliers |-> 0, products |-> 0,
               services |-> 0, transactions |-> 0, transactionItems |-> 0,
               serviceItems |-> 0, invoices |-> 0]
  /\ now = 0
  /\ calls = [c \in {Main} \cup Callers |-> Idle]

\* Time passes, between calls and between the statements of a call.
Tick ==
  /\ now < MaxClock
  /\ now' = now + 1
  /\ UNCHANGED <<tables, serial, calls>>

(* ------------------------------ customers ------------------------------ *)
createCustomer(c, input) ==
  LET id == serial.customers + 1 IN
  /\ id <= MaxCustomers
  /\ customersTable' = Insert(customersTable, id,
       [name |-> input.name,
        email |-> TextOrNull(input, "email"),
        phone |-> TextOrNull(input, "phone"),
        address |-> TextOrNull(input, "address"),
        created_at |-> now])
  /\ serial' = [serial EXCEPT !.customers = id]
  /\ Returned(c, "createCustomer", input, "none", id)
  /\ UNCHANGED <<suppliersTable, productsTable, servicesTable,
                 transactionsTable, transactionItemsTable, serviceItemsTable,
                 invoicesTable>>

CustomerInputFields == {"name", "email", "phone", "address"}

customerUpdatedField_orNull(row, input, f) ==
  IF Has(input, f) /\ input[f] # "" THEN input[f] ELSE NULLT

\* One column of the row after UPDATE ... SET updateData: a column that is
\* not in updateData keeps its value.
customerUpdatedField(row, input, f) ==
  IF Has(input, f) THEN input[f] ELSE row[f]

updateCustomer(c, input) ==
  /\ IF DOMAIN input \cap CustomerInputFields = {}
     THEN \* UPDATE with an empty SET list is refused
          /\ UNCHANGED customersTable
          /\ Returned(c, "updateCustomer", input, "db_error", 0)
     ELSE IF input.id \notin DOMAIN customersTable
     THEN /\ UNCHANGED customersTable
          /\ Returned(c, "updateCustomer", input, "not_found", 0)
     ELSE /\ customersTable' = SetRow(customersTable, input.id,
               [f \in DOMAIN customersTable[input.id] |->
                  IF f \in CustomerInputFields
                  THEN customerUpdatedField(customersTable[input.id],
                                            input, f)
                  ELSE customersTable[input.id][f]])
          /\ Returned(c, "updateCustomer", input, "none", input.id)
  /\ UNCHANGED <<suppliersTable, productsTable, servicesTable,
                 transactionsTable, transactionItemsTable, serviceItemsTable,
                 invoicesTable, serial>>

\* services, transactions and invoices reference customers.id: the store
\* refuses to delete a customer that a row refers to.
customerReferenced(id) ==
  \/ \E i \in DOMAIN servicesTable : servicesTable[i].customer_id = id
  \/ \E i \in DOMAIN transactionsTable : transactionsTable[i].customer_id = id
  \/ \E i \in DOMAIN invoicesTable : invoicesTable[i].customer_id = id

deleteCustomer(c, id) ==
  /\ IF customerReferenced(id)
     THEN /\ UNCHANGED customersTable
          /\ Returned(c, "deleteCustomer", [id |-> id], "db_error", 0)
     ELSE IF id \in DOMAIN customersTable
     THEN /\ customersTable' = DeleteRow(customersTable, id)
          /\ Returned(c, "deleteCustomer", [id |-> id], "none", id)
     ELSE /\ UNCHANGED customersTable
          /\ Returned(c, "deleteCustomer", [id |-> id], "not_found", 0)
  /\ UNCHANGED <<suppliersTable, productsTable, servicesTable,
                 transactionsTable, transactionItemsTable, serviceItemsTable,
                 invoicesTable, serial>>

(* ------------------------------ products ------------------------------- *)
createProduct(c, input) ==
  LET id == serial.products + 1 IN
  /\ id <= MaxProducts
  /\ productsTable' = Insert(productsTable, id,
       [name |-> input.name,
        description |-> TextOrNull(input, "description"),
        sku |-> TextOrNull(input, "sku"),
        category |-> TextOrNull(input, "category"),
        purchase_price |-> ToNumeric2(input.purchase_price),
        selling_price |-> ToNumeric2(input.selling_price),
        stock_quantity |-> input.stock_quantity,
        min_stock_level |-> NumOr(input, "min_stock_level", 0),
        created_at |-> now,
        updated_at |-> now])
  /\ serial' = [serial EXCEPT !.products = id]
  /\ Returned(c, "createProduct", input, "none", id)
  /\ UNCHANGED <<customersTable, suppliersTable, servicesTable,
                 transactionsTable, transactionItemsTable, serviceItemsTable,
                 invoicesTable>>

\* The value updateProduct puts in updateValues for a field it was given.
productUpdateValue(input, f) ==
  IF f \in {"purchase_price", "selling_price"} THEN ToNumeric2(input[f])
  ELSE input[f]

\* One column of the row after UPDATE ... SET updateValues: a column that is
\* not in updateValues keeps its value.
productUpdatedField(row, input, f) ==
  IF Has(input, f) THEN productUpdateValue(input, f) ELSE row[f]

ProductInputFields ==
  {"name", "description", "sku", "category", "purchase_price",
   "selling_price", "stock_quantity", "min_stock_level"}

\* The handler builds updateValues, reads the clock for updated_at and sends
\* the UPDATE; the store runs the UPDATE later, on the row as it is then.
updateProduct(c, input) ==
  LET \* updateValues.updated_at = new Date()
      buildUpdate ==
        /\ Has(input, "stock_quantity") => input.stock_quantity <= MaxStock
        /\ calls' = [calls EXCEPT ![c] =
             [Call("updateProduct", input, "update") EXCEPT !.clock = now]]
        /\ UNCHANGED <<tables, serial, now>>
      \* UPDATE products SET updateValues WHERE id = input.id RETURNING
      update ==
        /\ IF input.id \in DOMAIN productsTable
           THEN /\ productsTable' = SetRow(productsTable, input.id,
                     [f \in DOMAIN productsTable[input.id] |->
                        IF f \in ProductInputFields
                        THEN productUpdatedField(productsTable[input.id],
                                                 input, f)
                        ELSE IF f = "updated_at" THEN calls[c].clock
                        ELSE productsTable[input.id][f]])
                /\ EndCall(c, "none", input.id)
           ELSE /\ UNCHANGED productsTable
                /\ EndCall(c, "not_found", 0)
        /\ UNCHANGED <<customersTable, suppliersTable, servicesTable,
                       transactionsTable, transactionItemsTable,
                       serviceItemsTable, invoicesTable, serial, now>>
  IN IF Free(c) THEN buildUpdate
     ELSE InCall(c, "updateProduct", input) /\ update

productReferenced_never(id) == FALSE

\* transaction_items.product_id and service_items.product_id reference
\* products.id: the store refuses to delete a product that a row refers to.
productReferenced(id) ==
  \/ \E i \in DOMAIN transactionItemsTable :
       transactionItemsTable[i].product_id = id
  \/ \E i \in DOMAIN serviceItemsTable :
       serviceItemsTable[i].product_id = id

deleteProduct(c, id) ==
  /\ IF productReferenced(id)
     THEN /\ UNCHANGED productsTable
          /\ Returned(c, "deleteProduct", [id |-> id], "db_error", 0)
     ELSE IF id \in DOMAIN productsTable
     THEN /\ productsTable' = DeleteRow(productsTable, id)
          /\ Returned(c, "deleteProduct", [id |-> id], "none", id)
     ELSE /\ UNCHANGED productsTable
          /\ Returned(c, "deleteProduct", [id |-> id], "not_found", 0)
  /\ UNCHANGED <<customersTable, suppliersTable, servicesTable,
                 transactionsTable, transactionItemsTable, serviceItemsTable,
                 invoicesTable, serial>>

lowStock_orEqual(product) ==
  product.stock_quantity <= product.min_stock_level

\* WHERE stock_quantity < min_stock_level.
lowStock(product) == product.stock_quantity < product.min_stock_level

\* getLowStockProducts reads the products table and returns the rows the
\* WHERE clause keeps; it writes nothing.
getLowStockProducts(c) ==
  /\ Free(c)
  /\ calls' = [calls EXCEPT ![c] =
       [Finished(Call("getLowStockProducts", <<>>, "done"), "none", 0)
          EXCEPT !.ret = @ @@
            [rows |-> [i \in {p \in DOMAIN productsTable :
                                lowStock(productsTable[p])} |->
                         productsTable[i]]]]]
  /\ UNCHANGED <<tables, serial, now>>

(* ------------------------------ services ------------------------------- *)
\* input.estimated_cost?.toString() || null, written to a numeric(10,2)
\* column: undefined and null give NULL, every number (0 too) is kept.
costOrNull(input, f) ==
  IF Has(input, f) /\ input[f] # NULL THEN ToNumeric2(input[f]) ELSE NULL

\* Two statements: the lookup of the customer, then the INSERT.  The store
\* checks services.customer_id when the row is inserted: a customer deleted
\* since the lookup makes the INSERT fail, after it drew the id.
createService(c, input) ==
  LET id == serial.services + 1
      found == input.customer_id \in DOMAIN customersTable
      \* SELECT ... FROM customers WHERE id = input.customer_id
      selectCustomer ==
        /\ found => id <= MaxServices
        /\ StartCall(c, "createService", input, found, "insertService")
        /\ UNCHANGED <<tables, serial, now>>
      \* INSERT INTO services ... RETURNING
      insertService ==
        /\ serial' = [serial EXCEPT !.services = id]
        /\ IF ~found
           THEN /\ UNCHANGED servicesTable
                /\ EndCall(c, "db_error", 0)
           ELSE /\ servicesTable' = Insert(servicesTable, id,
                     [customer_id |-> input.customer_id,
                      device_type |-> input.device_type,
                      device_model |-> TextOrNull(input, "device_model"),
                      device_serial |-> TextOrNull(input, "device_serial"),
                      problem_description |-> input.problem_description,
                      repair_notes |-> TextOrNull(input, "repair_notes"),
                      estimated_cost |-> costOrNull(input, "estimated_cost"),
                      final_cost |-> NULL,
                      status |-> "received",
                      received_date |-> ToDate(now),
                      completed_date |-> NULL,
                      created_at |-> now,
                      updated_at |-> now])
                /\ EndCall(c, "none", id)
        /\ UNCHANGED <<customersTable, suppliersTable, productsTable,
                       transactionsTable, transactionItemsTable,
                       serviceItemsTable, invoicesTable, now>>
  IN IF Free(c) THEN selectCustomer
     ELSE InCall(c, "createService", input) /\ insertService

ServiceInputFields ==
  {"device_type", "device_model", "device_serial", "problem_description",
   "repair_notes", "estimated_cost", "final_cost", "status",
   "completed_date"}

\* The value updateService puts in updateData for a field it was given.
serviceUpdateValue(input, f) ==
  IF f \in {"estimated_cost", "final_cost"} THEN costOrNull(input, f)
  ELSE IF f = "completed_date" THEN formatDateForDB(input[f])
  ELSE input[f]

serviceUpdatedField(row, input, f) ==
  IF Has(input, f) THEN serviceUpdateValue(input, f) ELSE row[f]

\* Two statements: getService's lookup, then the UPDATE.  No handler deletes
\* a service, so the row is still there when the UPDATE runs.
updateService(c, input) ==
  LET \* getService: SELECT ... FROM services WHERE id = input.id
      selectService ==
        /\ StartCall(c, "updateService", input,
                     input.id \in DOMAIN servicesTable, "updateService")
        /\ UNCHANGED <<tables, serial, now>>
      \* UPDATE services SET updateData WHERE id = input.id RETURNING
      update ==
        /\ IF DOMAIN input \cap ServiceInputFields = {}
           THEN \* UPDATE with an empty SET list is refused
                /\ UNCHANGED servicesTable
                /\ EndCall(c, "db_error", 0)
           ELSE /\ servicesTable' = SetRow(servicesTable, input.id,
                     [f \in DOMAIN servicesTable[input.id] |->
                        IF f \in ServiceInputFields
                        THEN serviceUpdatedField(servicesTable[input.id],
                                                 input, f)
                        ELSE servicesTable[input.id][f]])
                /\ EndCall(c, "none", input.id)
        /\ UNCHANGED <<customersTable, suppliersTable, productsTable,
                       transactionsTable, transactionItemsTable,
                       serviceItemsTable, invoicesTable, serial, now>>
  IN IF Free(c) THEN selectService
     ELSE InCall(c, "updateService", input) /\ update

(* ----------------------------- suppliers ------------------------------ *)
createSupplier(c, input) ==
  LET id == serial.suppliers + 1 IN
  /\ id <= MaxSuppliers
  /\ suppliersTable' = Insert(suppliersTable, id,
       [name |-> input.name,
        contact_person |-> TextOrNull(input, "contact_person"),
        email |-> TextOrNull(input, "email"),
        phone |-> TextOrNull(input, "phone"),
        address |-> TextOrNull(input, "address"),
        created_at |-> now])
  /\ serial' = [serial EXCEPT !.suppliers = id]
  /\ Returned(c, "createSupplier", input, "none", id)
  /\ UNCHANGED <<customersTable, productsTable, servicesTable,
                 transactionsTable, transactionItemsTable, serviceItemsTable,
                 invoicesTable>>

\* transactions.supplier_id references suppliers.id.
supplierReferenced(id) ==
  \E i \in DOMAIN transactionsTable : transactionsTable[i].supplier_id = id

\* DELETE ... WHERE id = $1 without a look at the number of rows deleted.
deleteSupplier(c, id) ==
  /\ IF supplierReferenced(id)
     THEN /\ UNCHANGED suppliersTable
          /\ Returned(c, "deleteSupplier", [id |-> id], "db_error", 0)
     ELSE /\ suppliersTable' =
               IF id \in DOMAIN suppliersTable
               THEN DeleteRow(suppliersTable, id) ELSE suppliersTable
          /\ Returned(c, "deleteSupplier", [id |-> id], "none",
                      IF id \in DOMAIN suppliersTable THEN id ELSE 0)
  /\ UNCHANGED <<customersTable, productsTable, servicesTable,
                 transactionsTable, transactionItemsTable, serviceItemsTable,
                 invoicesTable, serial>>

(* ---------------------------- transactions ----------------------------- *)
Truthy_never(input, f) == FALSE

\* `if (input.supplier_id)`: the id is given and is neither null nor 0.
Truthy(input, f) == Has(input, f) /\ input[f] # NULL /\ input[f] # 0

\* Up to three statements: the lookup of the supplier and of the customer,
\* each only when the input names one, then the INSERT.  The handler builds
\* the INSERT when the answer of the last lookup has reached it (at once,
\* when there is no lookup) and reads the clock then, for a transaction_date
\* that the input does not give; the store runs the INSERT later.  It checks
\* transactions.supplier_id and transactions.customer_id when the row is
\* inserted: a row deleted since its lookup makes the INSERT fail, after it
\* drew the id.
createTransaction(c, input) ==
  LET id == serial.transactions + 1
      supplierFound == input.supplier_id \in DOMAIN suppliersTable
      customerFound == input.customer_id \in DOMAIN customersTable
      supplier_id == NumOr(input, "supplier_id", NULL)
      customer_id == NumOr(input, "customer_id", NULL)
      \* (input.transaction_date || new Date()) is first evaluated here
      afterLookups ==
        IF Has(input, "transaction_date") THEN "insertTransaction"
        ELSE "buildInsert"
      \* INSERT INTO transactions ... RETURNING, by the call `call`
      insertTransaction(call) ==
        /\ serial' = [serial EXCEPT !.transactions = id]
        /\ IF \/ supplier_id # NULL /\ supplier_id \notin DOMAIN suppliersTable
              \/ customer_id # NULL /\ customer_id \notin DOMAIN customersTable
           THEN /\ UNCHANGED transactionsTable
                /\ calls' = [calls EXCEPT ![c] = Finished(call, "db_error", 0)]
           ELSE /\ transactionsTable' = Insert(transactionsTable, id,
                     [type |-> input.type,
                      supplier_id |-> supplier_id,
                      customer_id |-> customer_id,
                      total_amount |-> ToNumeric2(input.total_amount),
                      transaction_date |->
                        IF Has(input, "transaction_date")
                        THEN ToDate(input.transaction_date)
                        ELSE ToDate(call.clock),
                      notes |-> TextOrNull(input, "notes"),
                      created_at |-> now])
                /\ calls' = [calls EXCEPT ![c] = Finished(call, "none", id)]
        /\ UNCHANGED <<customersTable, suppliersTable, productsTable,
                       servicesTable, transactionItemsTable,
                       serviceItemsTable, invoicesTable, now>>
      \* the first statement of the call
      start ==
        /\ ((Truthy(input, "supplier_id") => supplierFound)
              /\ (Truthy(input, "customer_id") => customerFound))
             => id <= MaxTransactions
        /\ IF Truthy(input, "supplier_id")
           THEN \* SELECT ... FROM suppliers WHERE id = input.supplier_id
                /\ StartCall(c, "createTransaction", input, supplierFound,
                     IF Truthy(input, "customer_id") THEN "selectCustomer"
                     ELSE afterLookups)
                /\ UNCHANGED <<tables, serial, now>>
           ELSE IF Truthy(input, "customer_id")
           THEN \* SELECT ... FROM customers WHERE id = input.customer_id
                /\ StartCall(c, "createTransaction", input, customerFound,
                             afterLookups)
                /\ UNCHANGED <<tables, serial, now>>
           ELSE /\ calls' = [calls EXCEPT ![c] =
                     [Call("createTransaction", input, "insertTransaction")
                        EXCEPT !.clock =
                          IF Has(input, "transaction_date") THEN NULL
                          ELSE now]]
                /\ UNCHANGED <<tables, serial, now>>
      \* SELECT ... FROM customers WHERE id = input.customer_id
      selectCustomer ==
        /\ IF customerFound
           THEN calls' = [calls EXCEPT ![c].pc = afterLookups]
           ELSE EndCall(c, "not_found", 0)
        /\ UNCHANGED <<tables, serial, now>>
      \* new Date(), when the answer of the last lookup has come
      buildInsert ==
        /\ calls' = [calls EXCEPT ![c].clock = now,
                                  ![c].pc = "insertTransaction"]
        /\ UNCHANGED <<tables, serial, now>>
  IN IF Free(c) THEN start
     ELSE /\ InCall(c, "createTransaction", input)
          /\ IF At(c, "selectCustomer") THEN selectCustomer
             ELSE IF At(c, "buildInsert") THEN buildInsert
             ELSE insertTransaction(calls[c])

totalPrice_unit(quantity, unit_price) == Number(unit_price)

\* const totalPrice = input.quantity * input.unit_price
totalPrice(quantity, unit_price) ==
  NumberTimes(Number(quantity * Unit), Number(unit_price))

\* The row both item tables get from an item input: unit_price.toString()
\* and totalPrice.toString(), each kept by a numeric(10,2) column.
itemRow(parentField, parentId, product_id, quantity, unit_price) ==
  [p \in {parentField} |-> parentId] @@
  [product_id |-> product_id,
   quantity |-> quantity,
   unit_price |-> ToNumeric2(unit_price),
   total_price |-> NumberToNumeric2(totalPrice(quantity, unit_price)),
   created_at |-> now]

newStockQuantity_sale(transactionType, stock_quantity, quantity) ==
  stock_quantity - quantity

\* newStockQuantity in createTransactionItem: a purchase adds to the stock
\* that was read, a sale takes from it.
newStockQuantity(transactionType, stock_quantity, quantity) ==
  IF transactionType = "purchase"
  THEN stock_quantity + quantity
  ELSE stock_quantity - quantity

saleRefused_never(transactionType, newStock) == FALSE

\* The sale branch throws when the new stock would be negative.
saleRefused(transactionType, newStock) ==
  transactionType # "purchase" /\ newStock < 0

withStock_unchanged(table, id, stock) == table

\* UPDATE products SET stock_quantity = stock WHERE id = id: no row, no
\* change.
withStock(table, id, stock) ==
  IF id \in DOMAIN table THEN [table EXCEPT ![id].stock_quantity = stock]
  ELSE table

\* Four statements: the lookup of the transaction, the lookup of the
\* product, the INSERT of the item, and, unless the sale is refused on the
\* stock that was read, the UPDATE of the stock to a value computed from
\* the stock that was read.
createTransactionItem(c, input) ==
  LET id == serial.transactionItems + 1
      transactionFound == input.transaction_id \in DOMAIN transactionsTable
      productFound == input.product_id \in DOMAIN productsTable
      newStock == newStockQuantity(calls[c].type, calls[c].read,
                                   input.quantity)
      \* SELECT ... FROM transactions WHERE id = input.transaction_id
      selectTransaction ==
        /\ Free(c)
        /\ (transactionFound /\ productFound)
             => /\ id <= MaxTransactionItems
                /\ newStockQuantity(
                     transactionsTable[input.transaction_id].type,
                     productsTable[input.product_id].stock_quantity,
                     input.quantity) <= MaxStock
        /\ calls' = [calls EXCEPT ![c] =
             IF transactionFound
             THEN [Call("createTransactionItem", input, "selectProduct")
                     EXCEPT !.type =
                       transactionsTable[input.transaction_id].type]
             ELSE Finished(Call("createTransactionItem", input, "done"),
                           "not_found", 0)]
        /\ UNCHANGED <<tables, serial, now>>
      \* SELECT ... FROM products WHERE id = input.product_id
      selectProduct ==
        /\ IF productFound
           THEN calls' = [calls EXCEPT
                  ![c].pc = "insertItem",
                  ![c].read = productsTable[input.product_id].stock_quantity]
           ELSE EndCall(c, "not_found", 0)
        /\ UNCHANGED <<tables, serial, now>>
      \* INSERT INTO transaction_items ... RETURNING, then the stock check
      insertItem ==
        /\ serial' = [serial EXCEPT !.transactionItems = id]
        /\ IF ~(transactionFound /\ productFound)
           THEN \* the product was deleted since its lookup
                /\ UNCHANGED transactionItemsTable
                /\ EndCall(c, "db_error", 0)
           ELSE /\ transactionItemsTable' = Insert(transactionItemsTable, id,
                     itemRow("transaction_id", input.transaction_id,
                             input.product_id, input.quantity,
                             input.unit_price))
                /\ IF saleRefused(calls[c].type, newStock)
                   THEN EndCall(c, "insufficient_stock", 0)
                   ELSE calls' = [calls EXCEPT ![c].pc = "updateStock",
                                               ![c].tx = id]
        /\ UNCHANGED <<customersTable, suppliersTable, productsTable,
                       servicesTable, transactionsTable, serviceItemsTable,
                       invoicesTable, now>>
      \* UPDATE products SET stock_quantity = newStockQuantity
      updateStock ==
        /\ productsTable' = withStock(productsTable, input.product_id,
                                      newStock)
        /\ EndCall(c, "none", calls[c].tx)
        /\ UNCHANGED <<customersTable, suppliersTable, servicesTable,
                       transactionsTable, transactionItemsTable,
                       serviceItemsTable, invoicesTable, serial, now>>
  IN IF Free(c) THEN selectTransaction
     ELSE /\ InCall(c, "createTransactionItem", input)
          /\ IF At(c, "selectProduct") THEN selectProduct
             ELSE IF At(c, "insertItem") THEN insertItem
             ELSE updateStock

(* ---------------------------- service items ---------------------------- *)
insufficientStock_orEqual(stock_quantity, quantity) ==
  stock_quantity <= quantity

\* product[0].stock_quantity < input.quantity
insufficientStock(stock_quantity, quantity) == stock_quantity < quantity

\* Four statements: the lookup of the service, the lookup of the product
\* with the stock check, the INSERT of the item, and the UPDATE of the stock
\* to the stock that was read less the quantity.
createServiceItem(c, input) ==
  LET id == serial.serviceItems + 1
      serviceFound == input.service_id \in DOMAIN servicesTable
      productFound == input.product_id \in DOMAIN productsTable
      \* SELECT ... FROM services WHERE id = input.service_id
      selectService ==
        /\ (serviceFound /\ productFound
              /\ ~insufficientStock(
                    productsTable[input.product_id].stock_quantity,
                    input.quantity))
             => id <= MaxServiceItems
        /\ StartCall(c, "createServiceItem", input, serviceFound,
                     "selectProduct")
        /\ UNCHANGED <<tables, serial, now>>
      \* SELECT ... FROM products WHERE id = input.product_id, and the check
      selectProduct ==
        /\ IF ~productFound
           THEN EndCall(c, "not_found", 0)
           ELSE IF insufficientStock(
                     productsTable[input.product_id].stock_quantity,
                     input.quantity)
           THEN EndCall(c, "insufficient_stock", 0)
           ELSE calls' = [calls EXCEPT
                  ![c].pc = "insertItem",
                  ![c].read = productsTable[input.product_id].stock_quantity]
        /\ UNCHANGED <<tables, serial, now>>
      \* INSERT INTO service_items ... RETURNING
      insertItem ==
        /\ serial' = [serial EXCEPT !.serviceItems = id]
        /\ IF ~(serviceFound /\ productFound)
           THEN \* the product was deleted since its lookup
                /\ UNCHANGED serviceItemsTable
                /\ EndCall(c, "db_error", 0)
           ELSE /\ serviceItemsTable' = Insert(serviceItemsTable, id,
                     itemRow("service_id", input.service_id,
                             input.product_id, input.quantity,
                             input.unit_price))
                /\ calls' = [calls EXCEPT ![c].pc = "updateStock",
                                          ![c].tx = id]
        /\ UNCHANGED <<customersTable, suppliersTable, productsTable,
                       servicesTable, transactionsTable,
                       transactionItemsTable, invoicesTable, now>>
      \* UPDATE products SET stock_quantity = <the stock read> - quantity
      updateStock ==
        /\ productsTable' = withStock(productsTable, input.product_id,
                                      calls[c].read - input.quantity)
        /\ EndCall(c, "none", calls[c].tx)
        /\ UNCHANGED <<customersTable, suppliersTable, servicesTable,
                       transactionsTable, transactionItemsTable,
                       serviceItemsTable, invoicesTable, serial, now>>
  IN IF Free(c) THEN selectService
     ELSE /\ InCall(c, "createServiceItem", input)
          /\ IF At(c, "selectProduct") THEN selectProduct
             ELSE IF At(c, "insertItem") THEN insertItem
             ELSE updateStock

restoredStock_none(stock_quantity, quantity) == stock_quantity

\* products[0].stock_quantity + serviceItem.quantity
restoredStock(stock_quantity, quantity) == stock_quantity + quantity

\* Four statements: the lookup of the item, the lookup of its product, the
\* UPDATE of the stock to the stock that was read plus the item's quantity,
\* and the DELETE of the item, which does not look at the number of rows
\* it deleted.
deleteServiceItem(c, id) ==
  LET serviceItem == calls[c].row
      itemFound == id \in DOMAIN serviceItemsTable
      \* SELECT ... FROM service_items WHERE id = id
      selectItem ==
        /\ Free(c)
        /\ (itemFound
              /\ serviceItemsTable[id].product_id \in DOMAIN productsTable)
             => restoredStock(
                  productsTable[serviceItemsTable[id].product_id]
                    .stock_quantity,
                  serviceItemsTable[id].quantity) <= MaxStock
        /\ calls' = [calls EXCEPT ![c] =
             IF itemFound
             THEN [Call("deleteServiceItem", [id |-> id], "selectProduct")
                     EXCEPT !.row = serviceItemsTable[id]]
             ELSE Finished(Call("deleteServiceItem", [id |-> id], "done"),
                           "not_found", 0)]
        /\ UNCHANGED <<tables, serial, now>>
      \* SELECT ... FROM products WHERE id = serviceItem.product_id
      selectProduct ==
        /\ IF serviceItem.product_id \in DOMAIN productsTable
           THEN calls' = [calls EXCEPT
                  ![c].pc = "updateStock",
                  ![c].read =
                    productsTable[serviceItem.product_id].stock_quantity]
           ELSE EndCall(c, "not_found", 0)
        /\ UNCHANGED <<tables, serial, now>>
      \* UPDATE products SET stock_quantity = <the stock read> + quantity
      updateStock ==
        /\ productsTable' = withStock(productsTable, serviceItem.product_id,
             restoredStock(calls[c].read, serviceItem.quantity))
        /\ calls' = [calls EXCEPT ![c].pc = "deleteItem"]
        /\ UNCHANGED <<customersTable, suppliersTable, servicesTable,
                       transactionsTable, transactionItemsTable,
                       serviceItemsTable, invoicesTable, serial, now>>
      \* DELETE FROM service_items WHERE id = id
      deleteItem ==
        /\ serviceItemsTable' = DeleteRow(serviceItemsTable, id)
        /\ EndCall(c, "none", id)
        /\ UNCHANGED <<customersTable, suppliersTable, productsTable,
                       servicesTable, transactionsTable,
                       transactionItemsTable, invoicesTable, serial, now>>
  IN IF Free(c) THEN selectItem
     ELSE /\ InCall(c, "deleteServiceItem", [id |-> id])
          /\ IF At(c, "selectProduct") THEN selectProduct
             ELSE IF At(c, "updateStock") THEN updateStock
             ELSE deleteItem

(* --------------------------- point of sale ---------------------------- *)
posServiceFound_anyCustomer(input) ==
  /\ input.service_id \in DOMAIN servicesTable
  /\ servicesTable[input.service_id].status = "completed"

\* The service a POS sale may be attached to: it exists, belongs to the
\* customer and is completed.
posServiceFound(input) ==
  /\ input.service_id \in DOMAIN servicesTable
  /\ servicesTable[input.service_id].customer_id = input.customer_id
  /\ servicesTable[input.service_id].status = "completed"

posServiceCharge_none(input) == Zero

\* serviceCharge = input.service_charge || (service.final_cost || 0), with
\* final_cost the parseFloat of the column, or null.
posServiceCharge(input) ==
  IF Truthy(input, "service_id")
  THEN Number(NumOr(input, "service_charge",
                LET final_cost == servicesTable[input.service_id].final_cost
                IN IF final_cost = NULL \/ final_cost = 0 THEN 0
                   ELSE final_cost))
  ELSE Zero

posInsufficientStock_never(stock_quantity, quantity) == FALSE

\* product.stock_quantity < item.quantity, in the validation loop
posInsufficientStock(stock_quantity, quantity) == stock_quantity < quantity

\* The validation of the whole cart against the store as it is now, from
\* line k on: the error of the first line that is refused.
RECURSIVE posValidate(_, _)
posValidate(items, k) ==
  IF k > Len(items) THEN "none"
  ELSE IF items[k].product_id \notin DOMAIN productsTable THEN "not_found"
  ELSE IF posInsufficientStock(
            productsTable[items[k].product_id].stock_quantity,
            items[k].quantity)
  THEN "insufficient_stock"
  ELSE posValidate(items, k + 1)

\* const taxAmount = totalBeforeServiceAndTax * input.tax_rate
posTaxAmount(totalBeforeServiceAndTax, tax_rate) ==
  NumberTimes(totalBeforeServiceAndTax, Number(tax_rate))

\* 2 + n + 1 + 2n statements for a cart of n lines: the lookup of the
\* customer; the lookup of the service when the input names one; for each
\* line the lookup of its product with the stock check; the INSERT of the
\* transaction; then for each line the INSERT of its item and the UPDATE
\* of the stock, which the store computes from the stock it holds then.
\* When the answer of the last lookup has reached it, the handler works out
\* the totals and builds the INSERT of the transaction, reading the clock
\* for transaction_date; the store runs the INSERT later.
createPosTransaction(c, input) ==
  LET call == calls[c]
      afterLookups ==
        IF Len(input.items) = 0 THEN "totals" ELSE "selectProduct"
      item == input.items[call.k]
      \* SELECT ... FROM customers WHERE id = input.customer_id
      selectCustomer ==
        /\ (/\ input.customer_id \in DOMAIN customersTable
            /\ Truthy(input, "service_id") => posServiceFound(input)
            /\ posValidate(input.items, 1) = "none")
             => /\ serial.transactions + 1 <= MaxTransactions
                /\ serial.transactionItems + Len(input.items)
                     <= MaxTransactionItems
        /\ StartCall(c, "createPosTransaction", input,
             input.customer_id \in DOMAIN customersTable,
             IF Truthy(input, "service_id") THEN "selectService"
             ELSE afterLookups)
        /\ UNCHANGED <<tables, serial, now>>
      \* SELECT ... FROM services WHERE id, customer_id and status match
      selectService ==
        /\ IF posServiceFound(input)
           THEN calls' = [calls EXCEPT
                  ![c].pc = afterLookups,
                  ![c].charge = posServiceCharge(input)]
           ELSE EndCall(c, "not_found", 0)
        /\ UNCHANGED <<tables, serial, now>>
      \* SELECT ... FROM products WHERE id = item.product_id, the stock
      \* check, subtotal += totalPrice and posItems.push, for cart line k
      selectProduct ==
        /\ IF item.product_id \notin DOMAIN productsTable
           THEN EndCall(c, "not_found", 0)
           ELSE IF posInsufficientStock(
                     productsTable[item.product_id].stock_quantity,
                     item.quantity)
           THEN EndCall(c, "insufficient_stock", 0)
           ELSE
             LET line == totalPrice(item.quantity, item.unit_price) IN
             calls' = [calls EXCEPT
               ![c].read = productsTable[item.product_id].stock_quantity,
               ![c].subtotal = NumberPlus(call.subtotal, line),
               ![c].items = Append(call.items,
                 [product_id |-> item.product_id,
                  product_name |-> productsTable[item.product_id].name,
                  product_sku |-> productsTable[item.product_id].sku,
                  quantity |-> item.quantity,
                  unit_price |-> Number(item.unit_price),
                  total_price |-> line]),
               ![c].k = IF call.k = Len(input.items) THEN 1 ELSE call.k + 1,
               ![c].pc = IF call.k = Len(input.items)
                         THEN "totals" ELSE "selectProduct"]
        /\ UNCHANGED <<tables, serial, now>>
      \* the totals, and new Date() for transaction_date
      totals ==
        LET totalBeforeServiceAndTax == NumberPlus(call.subtotal, call.charge)
            taxAmount == posTaxAmount(totalBeforeServiceAndTax,
                                      input.tax_rate)
        IN
        /\ calls' = [calls EXCEPT
             ![c].tax = taxAmount,
             ![c].total = NumberPlus(totalBeforeServiceAndTax, taxAmount),
             ![c].clock = now,
             ![c].pc = "insertTransaction"]
        /\ UNCHANGED <<tables, serial, now>>
      \* INSERT INTO transactions ... RETURNING
      insertTransaction ==
        LET id == serial.transactions + 1
            next == [call EXCEPT !.tx = id, !.pc = "insertItem"]
        IN
        /\ serial' = [serial EXCEPT !.transactions = id]
        /\ IF input.customer_id \notin DOMAIN customersTable
           THEN \* the customer was deleted since the lookup
                /\ UNCHANGED transactionsTable
                /\ EndCall(c, "db_error", 0)
           ELSE /\ transactionsTable' = Insert(transactionsTable, id,
                     [type |-> "sale",
                      supplier_id |-> NULL,
                      customer_id |-> input.customer_id,
                      total_amount |-> NumberToNumeric2(call.total),
                      transaction_date |-> ToDate(call.clock),
                      notes |-> TextOrNull(input, "notes"),
                      created_at |-> now])
                /\ calls' = [calls EXCEPT ![c] =
                     IF Len(input.items) = 0
                     THEN [Finished(next, "none", id) EXCEPT !.ret = @ @@
                             [items |-> next.items,
                              subtotal |-> next.subtotal,
                              service_charge |-> next.charge,
                              tax_amount |-> next.tax,
                              total_amount |-> next.total]]
                     ELSE next]
        /\ UNCHANGED <<customersTable, suppliersTable, productsTable,
                       servicesTable, transactionItemsTable,
                       serviceItemsTable, invoicesTable, now>>
      \* INSERT INTO transaction_items, for cart line k
      insertItem ==
        LET id == serial.transactionItems + 1 IN
        /\ serial' = [serial EXCEPT !.transactionItems = id]
        /\ IF item.product_id \notin DOMAIN productsTable
           THEN \* the product was deleted since its lookup
                /\ UNCHANGED transactionItemsTable
                /\ EndCall(c, "db_error", 0)
           ELSE /\ transactionItemsTable' = Insert(transactionItemsTable, id,
                     itemRow("transaction_id", call.tx, item.product_id,
                             item.quantity, item.unit_price))
                /\ calls' = [calls EXCEPT ![c].pc = "updateStock"]
        /\ UNCHANGED <<customersTable, suppliersTable, productsTable,
                       servicesTable, transactionsTable, serviceItemsTable,
                       invoicesTable, now>>
      \* UPDATE products SET stock_quantity = stock_quantity - item.quantity,
      \* for cart line k; after the last line the handler returns
      updateStock ==
        /\ productsTable' = withStock(productsTable, item.product_id,
             productsTable[item.product_id].stock_quantity - item.quantity)
        /\ calls' = [calls EXCEPT ![c] =
             IF call.k = Len(input.items)
             THEN [Finished(call, "none", call.tx) EXCEPT !.ret = @ @@
                     [items |-> call.items,
                      subtotal |-> call.subtotal,
                      service_charge |-> call.charge,
                      tax_amount |-> call.tax,
                      total_amount |-> call.total]]
             ELSE [call EXCEPT !.pc = "insertItem", !.k = call.k + 1]]
        /\ UNCHANGED <<customersTable, suppliersTable, servicesTable,
                       transactionsTable, transactionItemsTable,
                       serviceItemsTable, invoicesTable, serial, now>>
  IN IF Free(c) THEN selectCustomer
     ELSE /\ InCall(c, "createPosTransaction", input)
          /\ IF At(c, "selectService") THEN selectService
             ELSE IF At(c, "selectProduct") THEN selectProduct
             ELSE IF At(c, "totals") THEN totals
             ELSE IF At(c, "insertTransaction") THEN insertTransaction
             ELSE IF At(c, "insertItem") THEN insertItem
             ELSE updateStock

\* The orders in which a SELECT without ORDER BY may give the rows S: every
\* sequence that holds each of them once.
Orders(S) ==
  {ids \in [1..Cardinality(S) -> S] :
     \A j, k \in 1..Cardinality(S) : j # k => ids[j] # ids[k]}

\* items.reduce((sum, item) => sum + item.total_price, 0), up to item k
RECURSIVE posSummarySubtotal(_, _)
posSummarySubtotal(items, k) ==
  IF k = 0 THEN Zero
  ELSE NumberPlus(posSummarySubtotal(items, k - 1), items[k].total_price)

\* getPosSummary reads the sale back in two statements.  The first looks
\* the transaction up, joined with its customer: no sale transaction with a
\* customer has the id, and the handler returns null.  The second reads the
\* items, joined with their products, in an order the store chooses.
\* subtotal is the sum of the items, service_charge is 0 and tax_amount the
\* rest of the stored total.  It writes nothing.
getPosSummary(c, transactionId) ==
  LET found ==
        /\ transactionId \in DOMAIN transactionsTable
        /\ transactionsTable[transactionId].type = "sale"
        /\ transactionsTable[transactionId].customer_id
             \in DOMAIN customersTable
      \* SELECT ... FROM transactions INNER JOIN customers
      selectTransaction ==
        /\ Free(c)
        /\ calls' = [calls EXCEPT ![c] =
             IF found
             THEN [Call("getPosSummary", [transactionId |-> transactionId],
                        "selectItems")
                     EXCEPT !.total =
                       Number(transactionsTable[transactionId].total_amount)]
             ELSE [Finished(Call("getPosSummary",
                                 [transactionId |-> transactionId], "done"),
                            "none", 0)
                     EXCEPT !.ret = @ @@ [found |-> FALSE]]]
        /\ UNCHANGED <<tables, serial, now>>
      \* SELECT ... FROM transaction_items INNER JOIN products
      selectItems ==
        \E ids \in Orders({j \in DOMAIN transactionItemsTable :
                      /\ transactionItemsTable[j].transaction_id
                           = transactionId
                      /\ transactionItemsTable[j].product_id
                           \in DOMAIN productsTable}) :
        LET items ==
              [k \in 1..Len(ids) |->
                 LET row == transactionItemsTable[ids[k]] IN
                 [product_id |-> row.product_id,
                  product_name |-> productsTable[row.product_id].name,
                  product_sku |-> productsTable[row.product_id].sku,
                  quantity |-> row.quantity,
                  unit_price |-> Number(row.unit_price),
                  total_price |-> Number(row.total_price)]]
            subtotal == posSummarySubtotal(items, Len(items))
        IN
        /\ calls' = [calls EXCEPT ![c] =
             [Finished(calls[c], "none", transactionId) EXCEPT !.ret = @ @@
                [found |-> TRUE,
                 items |-> items,
                 subtotal |-> subtotal,
                 service_charge |-> Zero,
                 tax_amount |-> NumberMinus(calls[c].total, subtotal),
                 total_amount |-> calls[c].total]]]
        /\ UNCHANGED <<tables, serial, now>>
  IN IF Free(c) THEN selectTransaction
     ELSE /\ InCall(c, "getPosSummary", [transactionId |-> transactionId])
          /\ selectItems

(* ------------------------------ invoices ------------------------------- *)
\* const totalAmount = input.subtotal + taxAmount
invoiceTotalAmount(subtotal, taxAmount) == NumberPlus(subtotal, taxAmount)

\* invoices.customer_id, service_id and transaction_id reference their
\* tables: the store refuses an invoice row that names a row which does not
\* exist when the row is inserted.
invoiceReferenceMissing(input) ==
  \/ input.customer_id \notin DOMAIN customersTable
  \/ Truthy(input, "service_id")
       /\ input.service_id \notin DOMAIN servicesTable
  \/ Truthy(input, "transaction_id")
       /\ input.transaction_id \notin DOMAIN transactionsTable

\* The statements of createInvoice, on the CreateInvoiceInput that the call
\* of caller c holds (its subtotal a number): the lookup of the customer,
\* the lookup of the service when the input names one, then the INSERT.
createInvoiceStatements(c) ==
  LET input == calls[c].invoice
      id == serial.invoices + 1
      taxAmount == Number(NumOr(input, "tax_amount", 0))
      totalAmount == invoiceTotalAmount(input.subtotal, taxAmount)
      \* SELECT ... FROM customers WHERE id = input.customer_id
      selectCustomer ==
        /\ IF input.customer_id \notin DOMAIN customersTable
           THEN EndCall(c, "not_found", 0)
           ELSE calls' = [calls EXCEPT ![c].pc =
                  IF Truthy(input, "service_id") THEN "invoiceSelectService"
                  ELSE "insertInvoice"]
        /\ UNCHANGED <<tables, serial, now>>
      \* SELECT ... FROM services WHERE id = input.service_id
      selectService ==
        /\ IF input.service_id \notin DOMAIN servicesTable
           THEN EndCall(c, "not_found", 0)
           ELSE calls' = [calls EXCEPT ![c].pc = "insertInvoice"]
        /\ UNCHANGED <<tables, serial, now>>
      \* INSERT INTO invoices ... RETURNING
      insertInvoice ==
        /\ serial' = [serial EXCEPT !.invoices = id]
        /\ IF invoiceReferenceMissing(input)
           THEN /\ UNCHANGED invoicesTable
                /\ EndCall(c, "db_error", 0)
           ELSE /\ invoicesTable' = Insert(invoicesTable, id,
                     [customer_id |-> input.customer_id,
                      service_id |-> NumOr(input, "service_id", NULL),
                      transaction_id |-> NumOr(input, "transaction_id", NULL),
                      invoice_number |-> input.invoice_number,
                      subtotal |-> NumberToNumeric2(input.subtotal),
                      tax_amount |-> NumberToNumeric2(taxAmount),
                      total_amount |-> NumberToNumeric2(totalAmount),
                      status |-> "draft",
                      issue_date |-> ToDate(now),
                      due_date |-> formatDateForDB(
                        IF Has(input, "due_date") THEN input.due_date
                        ELSE NULL),
                      paid_date |-> NULL,
                      notes |-> TextOrNull(input, "notes"),
                      created_at |-> now,
                      updated_at |-> now])
                /\ EndCall(c, "none", id)
        /\ UNCHANGED <<customersTable, suppliersTable, productsTable,
                       servicesTable, transactionsTable,
                       transactionItemsTable, serviceItemsTable, now>>
  IN IF At(c, "invoiceSelectCustomer") THEN selectCustomer
     ELSE IF At(c, "invoiceSelectService") THEN selectService
     ELSE At(c, "insertInvoice") /\ insertInvoice

\* A call of createInvoice arrives with its input, the subtotal a number
\* read from the decimal that the client sent, and runs the statements.
createInvoice(c, input) ==
  IF Free(c)
  THEN /\ input.customer_id \in DOMAIN customersTable
         => serial.invoices + 1 <= MaxInvoices
       /\ calls' = [calls EXCEPT ![c] =
            LET call == [Call("createInvoice", input, "invoiceSelectCustomer")
                           EXCEPT !.invoice =
                             [input EXCEPT !.subtotal = Number(@)]]
            IN IF input.customer_id \notin DOMAIN customersTable
               THEN Finished(call, "not_found", 0)
               ELSE [call EXCEPT !.pc =
                       IF Truthy(input, "service_id")
                       THEN "invoiceSelectService" ELSE "insertInvoice"]]
       /\ UNCHANGED <<tables, serial, now>>
  ELSE InCall(c, "createInvoice", input) /\ createInvoiceStatements(c)

\* paid_date: formatDateForDB(input.paid_date || null)
invoicePaidDate(row, input) ==
  formatDateForDB(IF Has(input, "paid_date") THEN input.paid_date ELSE NULL)

\* status: input.status and notes: input.notes; SET skips a value that is
\* undefined.
invoiceUpdatedField(row, input, f) ==
  IF Has(input, f) THEN input[f] ELSE row[f]

\* Two statements: getInvoice's lookup, then the UPDATE, which the handler
\* builds, reading the clock for updated_at, when the answer of the lookup
\* has reached it and which the store runs later.  No handler deletes an
\* invoice, so the row is still there when the UPDATE runs.
updateInvoice(c, input) ==
  LET \* getInvoice: SELECT ... FROM invoices WHERE id = input.id
      selectInvoice ==
        /\ StartCall(c, "updateInvoice", input,
                     input.id \in DOMAIN invoicesTable, "buildUpdate")
        /\ UNCHANGED <<tables, serial, now>>
      \* updated_at: new Date()
      buildUpdate ==
        /\ calls' = [calls EXCEPT ![c].clock = now,
                                  ![c].pc = "updateInvoice"]
        /\ UNCHANGED <<tables, serial, now>>
      \* UPDATE invoices SET status, paid_date, notes, updated_at RETURNING
      update ==
        /\ invoicesTable' = SetRow(invoicesTable, input.id,
             [f \in DOMAIN invoicesTable[input.id] |->
                IF f \in {"status", "notes"}
                THEN invoiceUpdatedField(invoicesTable[input.id], input, f)
                ELSE IF f = "paid_date"
                THEN invoicePaidDate(invoicesTable[input.id], input)
                ELSE IF f = "updated_at" THEN calls[c].clock
                ELSE invoicesTable[input.id][f]])
        /\ EndCall(c, "none", input.id)
        /\ UNCHANGED <<customersTable, suppliersTable, productsTable,
                       servicesTable, transactionsTable,
                       transactionItemsTable, serviceItemsTable, serial,
                       now>>
  IN IF Free(c) THEN selectInvoice
     ELSE /\ InCall(c, "updateInvoice", input)
          /\ IF At(c, "buildUpdate") THEN buildUpdate ELSE update

\* sum(serviceItemsTable.total_price) over the service's items, which the
\* store adds up as decimals; 0 for none
partsTotal(serviceId) ==
  LET items == {i \in DOMAIN serviceItemsTable :
                  serviceItemsTable[i].service_id = serviceId}
  IN SumOver(items, [i \in items |-> serviceItemsTable[i].total_price])

laborCost_none(service) == 0

\* service.final_cost ? parseFloat(service.final_cost) : 0
laborCost(service) ==
  IF service.final_cost = NULL THEN 0 ELSE service.final_cost

\* `INV-SRV-${serviceId}-${Date.now()}`
invoiceNumber(serviceId) == <<"INV-SRV", serviceId, now>>

\* The lookup of the service and the sum over its items, which the store
\* takes when it runs the SELECT; when the answer has reached the handler,
\* the subtotal and the invoice number, with the clock as it is then, and
\* the call of createInvoice, which runs its own statements on the input
\* made here.
generateInvoiceFromService(c, serviceId) ==
  LET service == calls[c].row
      \* SELECT ... FROM services WHERE id = serviceId
      selectService ==
        /\ Free(c)
        /\ serviceId \in DOMAIN servicesTable
             => serial.invoices + 1 <= MaxInvoices
        /\ calls' = [calls EXCEPT ![c] =
             IF serviceId \in DOMAIN servicesTable
             THEN [Call("generateInvoiceFromService",
                        [serviceId |-> serviceId], "selectParts")
                     EXCEPT !.row = servicesTable[serviceId]]
             ELSE Finished(Call("generateInvoiceFromService",
                                [serviceId |-> serviceId], "done"),
                           "not_found", 0)]
        /\ UNCHANGED <<tables, serial, now>>
      \* SELECT sum(total_price) FROM service_items WHERE service_id
      selectParts ==
        /\ calls' = [calls EXCEPT ![c].pc = "invoiceInput",
                                  ![c].read = partsTotal(serviceId)]
        /\ UNCHANGED <<tables, serial, now>>
      \* partsTotal + laborCost, the invoice number and invoiceInput
      invoiceInput ==
        /\ calls' = [calls EXCEPT
             ![c].pc = "invoiceSelectCustomer",
             ![c].read = NULL,
             ![c].invoice =
               [customer_id |-> service.customer_id,
                service_id |-> serviceId,
                invoice_number |-> invoiceNumber(serviceId),
                subtotal |-> NumberPlus(Number(calls[c].read),
                                        Number(laborCost(service))),
                tax_amount |-> 0,
                notes |-> "auto-generated"]]
        /\ UNCHANGED <<tables, serial, now>>
  IN IF Free(c) THEN selectService
     ELSE /\ InCall(c, "generateInvoiceFromService",
                    [serviceId |-> serviceId])
          /\ IF At(c, "selectParts") THEN selectParts
             ELSE IF At(c, "invoiceInput") THEN invoiceInput
             ELSE createInvoiceStatements(c)

(* ------------------------ stock specification -------------------------- *)
\* Prices with at most two decimals.
StockPrices == {250 * Cent}

StockCustomerInputs == {[name |-> "ann"]}

StockProductInputs ==
  {[name |-> "part", purchase_price |-> 100 * Cent,
    selling_price |-> 250 * Cent, stock_quantity |-> s] : s \in 0..MaxQty}

StockServiceInputs ==
  {[customer_id |-> 1, device_type |-> "phone",
    problem_description |-> "broken"]}

StockTransactionInputs ==
  {[type |-> t, customer_id |-> 1, total_amount |-> 0] :
     t \in {"purchase", "sale"}}

StockTransactionItemInputs ==
  {[transaction_id |-> t, product_id |-> p, quantity |-> q,
    unit_price |-> u] :
     t \in 1..MaxTransactions, p \in 1..MaxProducts, q \in 1..MaxQty,
     u \in StockPrices}

StockServiceItemInputs ==
  {[service_id |-> s, product_id |-> p, quantity |-> q, unit_price |-> u] :
     s \in 1..MaxServices, p \in 1..MaxProducts, q \in 1..MaxQty,
     u \in StockPrices}

NextStock ==
  \/ \E input \in StockCustomerInputs : createCustomer(Main, input)
  \/ \E input \in StockProductInputs : createProduct(Main, input)
  \/ \E id \in 1..MaxProducts : deleteProduct(Main, id)
  \/ \E input \in StockServiceInputs : createService(Main, input)
  \/ \E input \in StockTransactionInputs : createTransaction(Main, input)
  \/ \E input \in StockTransactionItemInputs :
       createTransactionItem(Main, input)
  \/ \E input \in StockServiceItemInputs : createServiceItem(Main, input)
  \/ \E id \in 1..MaxServiceItems : deleteServiceItem(Main, id)

SpecStock == Init /\ [][NextStock]_vars

(* --------------------- properties of the stock rule -------------------- *)
\* The last call was a createTransactionItem whose transaction and product
\* existed, on a transaction of the given type.
LastTransactionItemOn(type) ==
  /\ result.op = "createTransactionItem"
  /\ result.input.transaction_id \in DOMAIN pre.transactions
  /\ pre.transactions[result.input.transaction_id].type = type
  /\ result.input.product_id \in DOMAIN pre.products

\* The last call was a createServiceItem whose service and product existed.
LastServiceItem ==
  /\ result.op = "createServiceItem"
  /\ result.input.service_id \in DOMAIN pre.services
  /\ result.input.product_id \in DOMAIN pre.products

\* The stock the last call's product had when the call started.
StockBefore == pre.products[result.input.product_id].stock_quantity
StockAfter == productsTable[result.input.product_id].stock_quantity

\* `table` is `before` plus exactly one row, the one the last call returned,
\* made from the call's input.
OneNewRow(table, before) ==
  /\ result.id \notin DOMAIN before
  /\ DOMAIN table = DOMAIN before \cup {result.id}
  /\ \A i \in DOMAIN before : table[i] = before[i]
  /\ table[result.id].product_id = result.input.product_id
  /\ table[result.id].quantity = result.input.quantity

\* C2: a sale item or a service item of quantity Q <= S (Q = S included)
\* on a product with stock S succeeds, stores exactly one new item row and
\* leaves the stock at S - Q.
SaleWithinStockSucceeds ==
  /\ (LastTransactionItemOn("sale") /\ result.input.quantity <= StockBefore)
       => /\ result.err = "none"
          /\ OneNewRow(transactionItemsTable, pre.transactionItems)
          /\ serviceItemsTable = pre.serviceItems
          /\ StockAfter = StockBefore - result.input.quantity
  /\ (LastServiceItem /\ result.input.quantity <= StockBefore)
       => /\ result.err = "none"
          /\ OneNewRow(serviceItemsTable, pre.serviceItems)
          /\ transactionItemsTable = pre.transactionItems
          /\ StockAfter = StockBefore - result.input.quantity

\* A service item took the whole stock of its product.
SaleOfWholeStock ==
  /\ LastServiceItem
  /\ result.input.quantity = StockBefore
  /\ result.err = "none"
  /\ StockAfter = 0

\* C3: a sale item or a service item of quantity Q > S on a product with
\* stock S fails with the insufficient-stock error and the stock stays S.
SaleBeyondStockFails ==
  ((LastTransactionItemOn("sale") \/ LastServiceItem)
     /\ result.input.quantity > StockBefore)
    => /\ result.err = "insufficient_stock"
       /\ StockAfter = StockBefore

\* A sale item asked for more than a non-empty stock and was refused.
SaleBeyondStockRefused ==
  /\ LastTransactionItemOn("sale")
  /\ StockBefore > 0
  /\ result.input.quantity > StockBefore
  /\ result.err = "insufficient_stock"

\* C4: a createTransactionItem or createServiceItem that fails writes
\* nothing: item rows and stocks are as they were before the call.
FailedItemCreationWritesNothing ==
  (result.op \in {"createTransactionItem", "createServiceItem"}
     /\ result.err # "none")
    => /\ transactionItemsTable = pre.transactionItems
       /\ serviceItemsTable = pre.serviceItems
       /\ productsTable = pre.products

\* C5: a purchase item of quantity Q on an existing product with stock S
\* succeeds whatever S is and leaves the stock at S + Q.
PurchaseAddsStock ==
  LastTransactionItemOn("purchase")
    => /\ result.err = "none"
       /\ StockAfter = StockBefore + result.input.quantity

\* A purchase item was added for a product that had no stock.
PurchaseOnEmptyStock ==
  /\ LastTransactionItemOn("purchase")
  /\ StockBefore = 0
  /\ result.err = "none"
  /\ StockAfter = result.input.quantity

(* ---------------------- round-trip specification ---------------------- *)
\* The main caller fills the store; then caller 1 may add a service item,
\* and then caller 2 deletes a service item.  The calls follow one another.
NextRoundTrip ==
  \/ \E input \in StockCustomerInputs :
       At(1, "idle") /\ At(2, "idle") /\ createCustomer(Main, input)
  \/ \E input \in StockProductInputs :
       At(1, "idle") /\ At(2, "idle") /\ createProduct(Main, input)
  \/ \E input \in StockServiceInputs :
       /\ Free(Main) => At(1, "idle") /\ At(2, "idle")
       /\ createService(Main, input)
  \/ \E input \in StockServiceItemInputs :
       /\ Free(Main) => At(1, "idle") /\ At(2, "idle")
       /\ createServiceItem(Main, input)
  \/ \E input \in StockServiceItemInputs :
       /\ Free(1) => Quiet /\ At(1, "idle") /\ At(2, "idle")
       /\ createServiceItem(1, input)
  \/ \E id \in 1..MaxServiceItems :
       /\ Free(2) => Quiet /\ At(2, "idle")
       /\ deleteServiceItem(2, id)

SpecRoundTrip == Init /\ [][NextRoundTrip]_vars

\* Caller 2's deleteServiceItem has returned; the item it named was stored
\* when the call started.
DeletedStoredItem ==
  /\ At(2, "done")
  /\ calls[2].input.id \in DOMAIN calls[2].pre.serviceItems

\* C6: deleteServiceItem of an existing item of quantity Q removes that
\* item only and adds Q to its product's stock; right after the
\* createServiceItem that made the item, it brings the stock back to what
\* it was before the create.
DeleteServiceItemRestoresStock ==
  DeletedStoredItem =>
    LET before == calls[2].pre
        id == calls[2].input.id
        item == before.serviceItems[id]
    IN /\ calls[2].ret.err = "none"
       /\ serviceItemsTable = DeleteRow(before.serviceItems, id)
       /\ transactionItemsTable = before.transactionItems
       /\ productsTable =
            [before.products EXCEPT ![item.product_id].stock_quantity =
               before.products[item.product_id].stock_quantity
                 + item.quantity]
       /\ (At(1, "done") /\ calls[1].ret.err = "none"
             /\ calls[1].ret.id = id)
            => productsTable[item.product_id].stock_quantity
                 = calls[1].pre.products[item.product_id].stock_quantity

\* The item that caller 1 made was deleted right after, while another item
\* of the same product stays, and the stock is what it was before the create.
ServiceItemDeletedBesideAnother ==
  /\ DeletedStoredItem
  /\ At(1, "done") /\ calls[1].ret.err = "none"
  /\ calls[1].ret.id = calls[2].input.id
  /\ calls[2].ret.err = "none"
  /\ \E j \in DOMAIN serviceItemsTable :
       serviceItemsTable[j].product_id = calls[1].input.product_id
  /\ productsTable[calls[1].input.product_id].stock_quantity
       = calls[1].pre.products[calls[1].input.product_id].stock_quantity

(* --------------------- point-of-sale specification --------------------- *)
PosProductUpdates ==
  {[id |-> 1, stock_quantity |-> s] : s \in {0, MaxQty}}

PosLines ==
  {[product_id |-> p, quantity |-> q, unit_price |-> u] :
     p \in 1..MaxProducts, q \in 1..MaxQty, u \in StockPrices}

Carts == UNION {[1..n -> PosLines] : n \in 0..MaxCart}

PosInputs ==
  {[customer_id |-> 1, items |-> c, tax_rate |-> 0] : c \in Carts}

NextPos ==
  \/ \E input \in StockCustomerInputs : createCustomer(Main, input)
  \/ \E input \in StockProductInputs : createProduct(Main, input)
  \/ \E input \in PosProductUpdates : updateProduct(Main, input)
  \/ \E input \in PosInputs : createPosTransaction(Main, input)

SpecPos == Init /\ [][NextPos]_vars

\* C1: every product's stock_quantity is at least 0 after any sequence of
\* handler calls executed one after the other.
StockNeverNegative ==
  Free(Main) =>
    \A p \in DOMAIN productsTable : productsTable[p].stock_quantity >= 0

(* ------------------------ price specification -------------------------- *)
\* Unit prices with at most two decimals: 0.00 and 2.55.
Prices == {0, 255 * Cent}

PriceProductInputs ==
  {[name |-> "part", purchase_price |-> 100 * Cent,
    selling_price |-> 250 * Cent, stock_quantity |-> MaxStock]}

PriceTransactionItemInputs ==
  {[transaction_id |-> 1, product_id |-> 1, quantity |-> q,
    unit_price |-> u] : q \in 1..MaxQty, u \in Prices}

PriceServiceItemInputs ==
  {[service_id |-> 1, product_id |-> 1, quantity |-> q, unit_price |-> u] :
     q \in 1..MaxQty, u \in Prices}

PriceCarts ==
  UNION {[1..n -> {[product_id |-> 1, quantity |-> q, unit_price |-> u] :
                     q \in 1..MaxQty, u \in Prices}] : n \in 1..MaxCart}

PricePosInputs ==
  {[customer_id |-> 1, items |-> c, tax_rate |-> 0] : c \in PriceCarts}

NextPrice ==
  \/ \E input \in StockCustomerInputs : createCustomer(Main, input)
  \/ \E input \in PriceProductInputs :
       serial.products = 0 /\ createProduct(Main, input)
  \/ \E input \in StockServiceInputs : createService(Main, input)
  \/ \E input \in StockTransactionInputs : createTransaction(Main, input)
  \/ \E input \in PriceTransactionItemInputs :
       createTransactionItem(Main, input)
  \/ \E input \in PriceServiceItemInputs : createServiceItem(Main, input)
  \/ \E id \in 1..MaxServiceItems : deleteServiceItem(Main, id)
  \/ \E input \in PricePosInputs : createPosTransaction(Main, input)

SpecPrice == Init /\ [][NextPrice]_vars

\* C7: every stored transaction item and service item has total_price =
\* quantity x unit_price (prices with two decimals), and a later call leaves
\* the total_price of a stored item as it was.
TotalPriceIsQuantityTimesUnitPrice ==
  /\ \A i \in DOMAIN transactionItemsTable :
       /\ transactionItemsTable[i].total_price
            = transactionItemsTable[i].quantity
                * transactionItemsTable[i].unit_price
       /\ i \in DOMAIN pre.transactionItems
            => transactionItemsTable[i].total_price
                 = pre.transactionItems[i].total_price
  /\ \A i \in DOMAIN serviceItemsTable :
       /\ serviceItemsTable[i].total_price
            = serviceItemsTable[i].quantity * serviceItemsTable[i].unit_price
       /\ i \in DOMAIN pre.serviceItems
            => serviceItemsTable[i].total_price
                 = pre.serviceItems[i].total_price

\* A point-of-sale call stored a line of two units at 2.55, total 5.10,
\* beside a service item of one unit at 2.55 stored earlier.
TwoUnitsPriced ==
  /\ result.op = "createPosTransaction"
  /\ result.err = "none"
  /\ \E i \in DOMAIN transactionItemsTable \ DOMAIN pre.transactionItems :
       /\ transactionItemsTable[i].quantity = 2
       /\ transactionItemsTable[i].unit_price = 255 * Cent
       /\ transactionItemsTable[i].total_price = 510 * Cent
  /\ \E i \in DOMAIN serviceItemsTable :
       /\ serviceItemsTable[i].quantity = 1
       /\ serviceItemsTable[i].total_price = 255 * Cent

(* ------------------------ invoice specification ------------------------ *)
\* The ways to give or omit an optional input field f with values from S.
Optional(f, S) == {[x \in {} |-> 0]} \cup {f :> v : v \in S}

InvoiceCustomerInputs == {[name |-> "ann"]}

InvoiceServiceInputs ==
  {[customer_id |-> 1, device_type |-> "phone",
    problem_description |-> "broken"]}

\* The repair is priced: final_cost 20.00.
InvoiceServiceUpdates ==
  {[id |-> s, final_cost |-> 20 * Unit] : s \in 1..MaxServices}

\* z.number().min(0) admits any non-negative amount: 50.00 and 0.004 here.
InvoiceAmounts == {50 * Unit, 400}

InvoiceInputs ==
  {[customer_id |-> 1, invoice_number |-> "INV-001", subtotal |-> a] @@ t :
     a \in InvoiceAmounts, t \in Optional("tax_amount", {400})}

InvoiceUpdates ==
  {[id |-> i] @@ s @@ p @@ n :
     i \in 1..MaxInvoices,
     s \in Optional("status", {"paid"}),
     p \in Optional("paid_date", {TicksPerDay}),
     n \in Optional("notes", {"sent"})}

NextInvoice ==
  \/ \E input \in InvoiceCustomerInputs : createCustomer(Main, input)
  \/ \E input \in InvoiceServiceInputs : createService(Main, input)
  \/ \E input \in InvoiceServiceUpdates : updateService(Main, input)
  \/ \E input \in InvoiceInputs : createInvoice(Main, input)
  \/ \E s \in 1..MaxServices : generateInvoiceFromService(Main, s)
  \/ \E input \in InvoiceUpdates : updateInvoice(Main, input)

SpecInvoice == Init /\ [][NextInvoice]_vars

\* C8: after any sequence of createInvoice, generateInvoiceFromService and
\* updateInvoice calls every stored invoice has total_amount = subtotal +
\* tax_amount, and an invoice that createInvoice made from an input without
\* tax_amount has tax_amount 0.
InvoiceTotalIsSubtotalPlusTax ==
  /\ \A i \in DOMAIN invoicesTable :
       invoicesTable[i].total_amount
         = invoicesTable[i].subtotal + invoicesTable[i].tax_amount
  /\ (result.op = "createInvoice" /\ result.err = "none"
        /\ ~Has(result.input, "tax_amount"))
       => invoicesTable[result.id].tax_amount = 0

\* C10: a successful updateInvoice leaves subtotal, tax_amount, total_amount,
\* customer_id and invoice_number of the invoice as they were, and each of
\* status, paid_date and notes that its input omits keeps its stored value.
UpdateInvoiceKeepsOmittedFields ==
  (result.op = "updateInvoice" /\ result.err = "none") =>
    /\ \A f \in {"subtotal", "tax_amount", "total_amount", "customer_id",
                 "invoice_number"} :
         invoicesTable[result.id][f] = pre.invoices[result.id][f]
    /\ \A f \in {"status", "paid_date", "notes"} :
         ~Has(result.input, f) =>
           invoicesTable[result.id][f] = pre.invoices[result.id][f]

(* ------------------------ update specification ------------------------- *)
UpdateCustomerInputs == {[name |-> "ann", email |-> "ann@shop.com"]}

UpdateCustomerUpdates ==
  {[id |-> i] @@ n @@ e :
     i \in 1..(MaxCustomers + 1),
     n \in Optional("name", {"bob"}),
     e \in Optional("email", {NULLT})}

UpdateProductInputs ==
  {[name |-> "part", description |-> "spare", purchase_price |-> 100 * Cent,
    selling_price |-> 250 * Cent, stock_quantity |-> 1]}

UpdateProductUpdates ==
  {[id |-> i] @@ u :
     i \in 1..(MaxProducts + 1),
     u \in {[x \in {} |-> 0],
            [description |-> NULLT, selling_price |-> 300 * Cent]}}

UpdateServiceInputs ==
  {[customer_id |-> 1, device_type |-> "phone",
    problem_description |-> "broken", estimated_cost |-> 10 * Unit]}

UpdateServiceUpdates ==
  {[id |-> i] @@ u :
     i \in 1..(MaxServices + 1),
     u \in {[x \in {} |-> 0],
            [estimated_cost |-> NULL, status |-> "completed"]}}

\* No invoice is stored in this specification: every id is a missing one.
UpdateInvoiceUpdates ==
  {[id |-> i] @@ s : i \in 1..MaxInvoices, s \in Optional("status", {"paid"})}

NextUpdate ==
  \/ \E input \in UpdateInvoiceUpdates : updateInvoice(Main, input)
  \/ \E input \in UpdateCustomerInputs : createCustomer(Main, input)
  \/ \E input \in UpdateCustomerUpdates : updateCustomer(Main, input)
  \/ \E input \in UpdateProductInputs : createProduct(Main, input)
  \/ \E input \in UpdateProductUpdates : updateProduct(Main, input)
  \/ \E input \in UpdateServiceInputs : createService(Main, input)
  \/ \E input \in UpdateServiceUpdates : updateService(Main, input)

SpecUpdate == Init /\ [][NextUpdate]_vars

\* The table an update handler writes, now and before the last call.
UpdatedTable ==
  IF result.op = "updateCustomer" THEN customersTable
  ELSE IF result.op = "updateProduct" THEN productsTable
  ELSE servicesTable

UpdatedTableBefore ==
  IF result.op = "updateCustomer" THEN pre.customers
  ELSE IF result.op = "updateProduct" THEN pre.products
  ELSE pre.services

\* The value a field given in the input is stored as: null as null, a price
\* as numeric(10,2), every other value as it is.
StoredValue(f) ==
  IF f \in {"purchase_price", "selling_price", "estimated_cost",
            "final_cost"}
  THEN IF result.input[f] = NULL THEN NULL ELSE ToNumeric2(result.input[f])
  ELSE result.input[f]

\* C9: a successful updateCustomer, updateProduct or updateService stores
\* every field given in its input (null as null), leaves every omitted field
\* of the record as it was, and modifies no other record of any table.  The
\* bookkeeping column updated_at is not an input field and is left out.
UpdateChangesOnlyGivenFields ==
  (result.op \in {"updateCustomer", "updateProduct", "updateService"}
     /\ result.err = "none") =>
    /\ DOMAIN UpdatedTable = DOMAIN UpdatedTableBefore
    /\ \A i \in DOMAIN UpdatedTable \ {result.id} :
         UpdatedTable[i] = UpdatedTableBefore[i]
    /\ \A f \in DOMAIN UpdatedTable[result.id] \ {"updated_at"} :
         UpdatedTable[result.id][f]
           = IF Has(result.input, f) THEN StoredValue(f)
             ELSE UpdatedTableBefore[result.id][f]
    /\ result.op # "updateCustomer" => customersTable = pre.customers
    /\ result.op # "updateProduct" => productsTable = pre.products
    /\ result.op # "updateService" => servicesTable = pre.services
    /\ suppliersTable = pre.suppliers
    /\ transactionsTable = pre.transactions
    /\ transactionItemsTable = pre.transactionItems
    /\ serviceItemsTable = pre.serviceItems
    /\ invoicesTable = pre.invoices

\* updateCustomer is given email null and no name on a customer that had an
\* email: the email is null afterwards and the name is the one stored before.
EmailClearedNameKept ==
  /\ result.op = "updateCustomer" /\ result.err = "none"
  /\ Has(result.input, "email") /\ result.input.email = NULLT
  /\ ~Has(result.input, "name")
  /\ pre.customers[result.id].email # NULLT
  /\ customersTable[result.id].email = NULLT
  /\ customersTable[result.id].name = pre.customers[result.id].name

\* The table the last update call addressed, as it was before the call.
AddressedTableBefore ==
  IF result.op = "updateInvoice" THEN pre.invoices ELSE UpdatedTableBefore

\* C11: updateCustomer, updateProduct, updateService and updateInvoice called
\* with an id that is not stored fail with the not-found error and leave the
\* whole store as it was.
UpdateOfMissingIdIsNotFound ==
  (result.op \in {"updateCustomer", "updateProduct", "updateService",
                  "updateInvoice"}
     /\ result.input.id \notin DOMAIN AddressedTableBefore) =>
    /\ result.err = "not_found"
    /\ Snapshot = pre

(* ------------------------ delete specification ------------------------- *)
DeleteSupplierInputs == {[name |-> "parts inc"]}

\* Customers, a supplier, products and a repair, and a purchase with its
\* items, which name a customer, the supplier and the products.
NextDelete ==
  \/ \E input \in StockCustomerInputs : createCustomer(Main, input)
  \/ \E input \in DeleteSupplierInputs : createSupplier(Main, input)
  \/ \E input \in UpdateProductInputs : createProduct(Main, input)
  \/ \E input \in StockServiceInputs : createService(Main, input)
  \/ \E s \in Optional("supplier_id", {1}) :
       createTransaction(Main, [type |-> "purchase", total_amount |-> 0] @@ s)
  \/ \E p \in 1..MaxProducts :
       createTransactionItem(Main,
         [transaction_id |-> 1, product_id |-> p, quantity |-> 1,
          unit_price |-> 250 * Cent])
  \/ \E id \in 1..MaxCustomers : deleteCustomer(Main, id)
  \/ \E id \in 1..MaxSuppliers : deleteSupplier(Main, id)
  \/ \E id \in 1..MaxProducts : deleteProduct(Main, id)

SpecDelete == Init /\ [][NextDelete]_vars

DeleteCall ==
  result.op \in {"deleteCustomer", "deleteSupplier", "deleteProduct"}

\* The table the last delete call addressed, now and before the call.
DeletedFrom ==
  IF result.op = "deleteCustomer" THEN customersTable
  ELSE IF result.op = "deleteSupplier" THEN suppliersTable
  ELSE productsTable

DeletedFromBefore ==
  IF result.op = "deleteCustomer" THEN pre.customers
  ELSE IF result.op = "deleteSupplier" THEN pre.suppliers
  ELSE pre.products

\* A row of another table named the record when the call started.
ReferencedBefore ==
  LET id == result.input.id IN
  IF result.op = "deleteCustomer"
  THEN \/ \E i \in DOMAIN pre.services : pre.services[i].customer_id = id
       \/ \E i \in DOMAIN pre.transactions :
            pre.transactions[i].customer_id = id
       \/ \E i \in DOMAIN pre.invoices : pre.invoices[i].customer_id = id
  ELSE IF result.op = "deleteSupplier"
  THEN \E i \in DOMAIN pre.transactions :
         pre.transactions[i].supplier_id = id
  ELSE \/ \E i \in DOMAIN pre.transactionItems :
            pre.transactionItems[i].product_id = id
       \/ \E i \in DOMAIN pre.serviceItems :
            pre.serviceItems[i].product_id = id

\* The call addressed an id that was not stored: deleteCustomer and
\* deleteProduct fail with the not-found error, deleteSupplier returns
\* without error, and the store is unchanged.
DeleteOfMissingId ==
  /\ result.err
       = (IF result.op = "deleteSupplier" THEN "none" ELSE "not_found")
  /\ Snapshot = pre

\* The call went through and removed the record it addressed, and left
\* every other record of every table as it was.
RemovedExactlyThat ==
  /\ result.err = "none"
  /\ DOMAIN DeletedFrom = DOMAIN DeletedFromBefore \ {result.input.id}
  /\ \A i \in DOMAIN DeletedFrom : DeletedFrom[i] = DeletedFromBefore[i]
  /\ result.op # "deleteCustomer" => customersTable = pre.customers
  /\ result.op # "deleteSupplier" => suppliersTable = pre.suppliers
  /\ result.op # "deleteProduct" => productsTable = pre.products
  /\ servicesTable = pre.services
  /\ transactionsTable = pre.transactions
  /\ transactionItemsTable = pre.transactionItems
  /\ serviceItemsTable = pre.serviceItems
  /\ invoicesTable = pre.invoices

\* C12, as stated: deleteCustomer and deleteProduct of an id that is not
\* stored fail with the not-found error, deleteSupplier of an id that is not
\* stored returns without error, and the store is unchanged in the three
\* cases; the delete of a stored record removes that record and no other.
DeleteOfStoredRecordRemovesIt ==
  DeleteCall =>
    IF result.input.id \notin DOMAIN DeletedFromBefore
    THEN DeleteOfMissingId
    ELSE RemovedExactlyThat

\* C12, amended: as stated for an id that is not stored; the delete of a
\* stored record that no row of another table names goes through and
\* removes that record and no other; the delete of a stored record that a
\* row of another table names is refused by the store and removes nothing.
DeleteRemovesExactlyThatRecord ==
  DeleteCall =>
    IF result.input.id \notin DOMAIN DeletedFromBefore
    THEN DeleteOfMissingId
    ELSE IF ReferencedBefore
    THEN result.err = "db_error" /\ Snapshot = pre
    ELSE RemovedExactlyThat

\* Product 1 is deleted while product 2 is stored, and product 2 stays.
ProductDeletedBesideAnother ==
  /\ result.op = "deleteProduct" /\ result.err = "none"
  /\ DOMAIN pre.products = {1, 2}
  /\ DOMAIN productsTable = {3 - result.id}

(* --------------------- overlapping-sales specification ----------------- *)
\* One product with stock RaceInitialStock, then two callers that each make
\* one sale-type call on it; their statements interleave.
RaceInitialStock == MaxQty

RaceProductInputs ==
  {[name |-> "part", purchase_price |-> 100 * Cent,
    selling_price |-> 250 * Cent, stock_quantity |-> RaceInitialStock]}

RaceTransactionInputs ==
  {[type |-> "sale", customer_id |-> 1, total_amount |-> 0]}

RaceServiceUpdates == {[id |-> 1, status |-> "completed"]}

RaceServiceItemInputs ==
  {[service_id |-> 1, product_id |-> 1, quantity |-> q,
    unit_price |-> 250 * Cent] : q \in 1..MaxQty}

RaceTransactionItemInputs ==
  {[transaction_id |-> 1, product_id |-> 1, quantity |-> q,
    unit_price |-> 250 * Cent] : q \in 1..MaxQty}

RacePosInputs ==
  {[customer_id |-> 1, tax_rate |-> 0,
    items |-> <<[product_id |-> 1, quantity |-> q,
                 unit_price |-> 250 * Cent]>>] @@ s :
     q \in 1..MaxQty, s \in Optional("service_id", {1})}

AllIdle == \A c \in Callers : At(c, "idle")

\* The main caller fills the store while no other caller has called.
Setup == Free(Main) => AllIdle

\* Caller c makes one call, once the main caller has returned.
OneCall(c) == Free(c) => At(c, "idle") /\ Free(Main)

NextRace ==
  \/ \E input \in StockCustomerInputs : Setup /\ createCustomer(Main, input)
  \/ \E input \in RaceProductInputs :
       Setup /\ serial.products = 0 /\ createProduct(Main, input)
  \/ \E input \in StockServiceInputs : Setup /\ createService(Main, input)
  \/ \E input \in RaceServiceUpdates : Setup /\ updateService(Main, input)
  \/ \E input \in RaceTransactionInputs :
       Setup /\ createTransaction(Main, input)
  \/ \E c \in Callers :
       \/ \E input \in RaceServiceItemInputs :
            OneCall(c) /\ createServiceItem(c, input)
       \/ \E input \in RaceTransactionItemInputs :
            OneCall(c) /\ createTransactionItem(c, input)
       \/ \E input \in RacePosInputs :
            OneCall(c) /\ createPosTransaction(c, input)

SpecRace == Init /\ [][NextRace]_vars

\* The quantity a call asked for (its input's, or its one cart line's).
CallQuantity(c) ==
  IF calls[c].op = "createPosTransaction"
  THEN calls[c].input.items[1].quantity
  ELSE calls[c].input.quantity

Sold(c) == At(c, "done") /\ calls[c].ret.err = "none"

\* The quantities of the sales that went through.
SoldQuantity ==
  SumOver({c \in Callers : Sold(c)},
          [c \in Callers |-> CallQuantity(c)])

\* Product 1 is over-sold: its stock is negative, or is not the initial stock
\* less the quantities sold.
Oversold ==
  /\ 1 \in DOMAIN productsTable
  /\ \/ productsTable[1].stock_quantity < 0
     \/ productsTable[1].stock_quantity # RaceInitialStock - SoldQuantity

\* C13: two sale-type item creations on one product, interleaved statement
\* by statement, over-sell the product exactly by both passing the stock
\* check before either has written its decrement: once both calls have
\* ended, the product is over-sold only if both went through and both had
\* read the full initial stock at their check.
OversoldOnlyByOverlappingChecks ==
  ((\A c \in Callers : At(c, "done")) /\ Oversold) =>
    \A c \in Callers : Sold(c) /\ calls[c].read = RaceInitialStock

\* Both calls read the full stock, both went through, the product is
\* over-sold.
BothPassedAndOversold ==
  /\ \A c \in Callers : Sold(c) /\ calls[c].read = RaceInitialStock
  /\ Oversold

(* ------------------------- clock specification ------------------------- *)
ClockProductUpdates == {[id |-> 1, name |-> "spare part"]}

ClockServiceUpdates == {[id |-> 1, status |-> "in_progress"]}

ClockInvoiceInputs ==
  {[customer_id |-> 1, invoice_number |-> "INV-001", subtotal |-> 50 * Unit]}

ClockInvoiceUpdates == {[id |-> 1, status |-> "sent"]}

NextClock ==
  \/ Tick
  \/ \E input \in StockCustomerInputs : createCustomer(Main, input)
  \/ \E input \in UpdateProductInputs : createProduct(Main, input)
  \/ \E input \in StockServiceInputs : createService(Main, input)
  \/ \E input \in ClockInvoiceInputs :
       createInvoice(Main, input)
  \/ \E input \in ClockProductUpdates : updateProduct(Main, input)
  \/ \E input \in ClockServiceUpdates : updateService(Main, input)
  \/ \E input \in ClockInvoiceUpdates : updateInvoice(Main, input)

SpecClock == Init /\ [][NextClock]_vars

\* C14: every successful updateProduct, updateService and updateInvoice
\* leaves the record with updated_at at a time of the call: a reading of the
\* clock taken between the call's start and its return, so not earlier than
\* the call's start and later than a value stored at an earlier time.
UpdateRefreshesUpdatedAt ==
  (result.op \in {"updateProduct", "updateService", "updateInvoice"}
     /\ result.err = "none") =>
    (IF result.op = "updateProduct" THEN productsTable
     ELSE IF result.op = "updateService" THEN servicesTable
     ELSE invoicesTable)[result.id].updated_at \in calls[Main].at .. now

(* ---------------------- counter-sale specification --------------------- *)
\* Sales at the counter, with and without a repair attached.
SaleProductInputs ==
  {[name |-> "part", purchase_price |-> 100 * Cent,
    selling_price |-> 255 * Cent, stock_quantity |-> MaxQty]}

SaleServiceInputs ==
  {[customer_id |-> c, device_type |-> "phone",
    problem_description |-> "broken"] : c \in {1, 2}}

\* The repair is done and priced: 20.00.
SaleServiceUpdates ==
  {[id |-> 1, status |-> "completed", final_cost |-> 20 * Unit]}

SaleLine(p, q) ==
  [product_id |-> p, quantity |-> q, unit_price |-> 255 * Cent]

\* An empty cart, one line, one line for the whole stock, two lines.
SaleCarts ==
  {<<>>, <<SaleLine(1, 1)>>, <<SaleLine(1, MaxQty)>>,
   <<SaleLine(1, 1), SaleLine(2, 1)>>}

\* tax_rate 0 and 0.08; service_charge left out, 0 or 15.00.
SaleCharges ==
  {[tax_rate |-> 0], [tax_rate |-> 8 * Cent],
   [tax_rate |-> 0, service_charge |-> 0],
   [tax_rate |-> 8 * Cent, service_charge |-> 0],
   [tax_rate |-> 8 * Cent, service_charge |-> 15 * Unit]}

\* One unit at 0.35 and tax_rate 0.10: the total is 0.385, half a cent
\* above 0.38.
HalfCentSale ==
  [customer_id |-> 1, tax_rate |-> 10 * Cent,
   items |-> <<[product_id |-> 1, quantity |-> 1, unit_price |-> 35 * Cent]>>]

\* One unit at 0.35 and tax_rate 0.01: the tax, 0.0035, is under half a cent.
SmallTaxSale == [HalfCentSale EXCEPT !.tax_rate = Cent]

SaleInputs ==
  {[customer_id |-> c, items |-> i] @@ g @@ s :
     c \in {1, 2}, i \in SaleCarts, g \in SaleCharges,
     s \in Optional("service_id", {1})}
    \cup {HalfCentSale, SmallTaxSale}

\* Two customers, two products and one repair are enough for every case of a
\* sale.
NextSale ==
  \/ serial.customers < 2
       /\ \E input \in StockCustomerInputs : createCustomer(Main, input)
  \/ serial.products < 2
       /\ \E input \in SaleProductInputs : createProduct(Main, input)
  \/ \E input \in SaleServiceInputs :
       Starting(Main, serial.services < 1) /\ createService(Main, input)
  \/ \E input \in SaleServiceUpdates : updateService(Main, input)
  \/ \E input \in SaleInputs : createPosTransaction(Main, input)

SpecSale == Init /\ [][NextSale]_vars

PosCall == result.op = "createPosTransaction"

\* The service the last POS call named was stored, for the customer it
\* named, and completed, when the call started.
ServiceWasAcceptable ==
  /\ result.input.service_id \in DOMAIN pre.services
  /\ pre.services[result.input.service_id].customer_id
       = result.input.customer_id
  /\ pre.services[result.input.service_id].status = "completed"

\* C15: createPosTransaction given a service_id succeeds only if the service
\* exists, belongs to the given customer and is completed; when it is not,
\* and when the customer does not exist, the call fails and the store is as
\* it was: no transaction, no transaction item, no stock change.
PosRequiresCompletedServiceOfCustomer ==
  PosCall =>
    /\ (result.err = "none" /\ Has(result.input, "service_id"))
         => ServiceWasAcceptable
    /\ (\/ result.input.customer_id \notin DOMAIN pre.customers
        \/ Has(result.input, "service_id") /\ ~ServiceWasAcceptable)
         => (result.err # "none" /\ Snapshot = pre)

\* A sale for customer 2 names the completed service of customer 1 and is
\* refused, with the product it asked for in stock.
SaleWithAnotherCustomersService ==
  /\ PosCall /\ result.err # "none"
  /\ result.input.customer_id \in DOMAIN pre.customers
  /\ Has(result.input, "service_id")
  /\ result.input.service_id \in DOMAIN pre.services
  /\ pre.services[result.input.service_id].status = "completed"
  /\ pre.services[result.input.service_id].customer_id
       # result.input.customer_id
  /\ Len(result.input.items) = 1
  /\ 1 \in DOMAIN pre.products
  /\ result.input.items[1].product_id = 1
  /\ result.input.items[1].quantity <= pre.products[1].stock_quantity

PosSale == PosCall /\ result.err = "none"

\* The sum over the first k cart lines of quantity x unit_price, in the
\* arithmetic of JavaScript numbers.
RECURSIVE CartSubtotal(_, _)
CartSubtotal(items, k) ==
  IF k = 0 THEN Zero
  ELSE NumberPlus(CartSubtotal(items, k - 1),
                  NumberTimes(Number(items[k].quantity * Unit),
                              Number(items[k].unit_price)))

\* C16: a successful createPosTransaction returns subtotal = the sum over
\* the cart lines of quantity x unit_price, tax_amount = (subtotal +
\* service_charge) x tax_rate and total_amount = subtotal + service_charge +
\* tax_amount, and the transaction it stored has that total_amount.
PosReturnsAndStoresTheTotal ==
  PosSale =>
    /\ result.subtotal
         = CartSubtotal(result.input.items, Len(result.input.items))
    /\ result.tax_amount
         = NumberTimes(NumberPlus(result.subtotal, result.service_charge),
                       Number(result.input.tax_rate))
    /\ result.total_amount
         = NumberPlus(NumberPlus(result.subtotal, result.service_charge),
                      result.tax_amount)
    /\ Number(transactionsTable[result.id].total_amount)
         = result.total_amount

\* The quantity the cart asks of product p, over all its lines.
RECURSIVE CartQuantity(_, _, _)
CartQuantity(items, p, k) ==
  IF k > Len(items) THEN 0
  ELSE (IF items[k].product_id = p THEN items[k].quantity ELSE 0)
       + CartQuantity(items, p, k + 1)

\* The ids of the transaction items the last call inserted.
NewTransactionItems ==
  DOMAIN transactionItemsTable \ DOMAIN pre.transactionItems

\* C17: a successful createPosTransaction stores one new transaction, of type
\* 'sale' and for the given customer, and one transaction item per cart
\* line, and takes from each product's stock the quantity of every cart line
\* that names it; products that are not in the cart, and everything else in
\* the store, stay as they were.
PosStoresSaleItemsAndStock ==
  PosSale =>
    /\ DOMAIN transactionsTable = DOMAIN pre.transactions \cup {result.id}
    /\ result.id \notin DOMAIN pre.transactions
    /\ \A t \in DOMAIN pre.transactions :
         transactionsTable[t] = pre.transactions[t]
    /\ transactionsTable[result.id].type = "sale"
    /\ transactionsTable[result.id].customer_id = result.input.customer_id
    /\ DOMAIN pre.transactionItems \subseteq DOMAIN transactionItemsTable
    /\ \A i \in DOMAIN pre.transactionItems :
         transactionItemsTable[i] = pre.transactionItems[i]
    /\ Cardinality(NewTransactionItems) = Len(result.input.items)
    /\ \A k \in 1..Len(result.input.items) :
         \E i \in NewTransactionItems :
           /\ transactionItemsTable[i].transaction_id = result.id
           /\ transactionItemsTable[i].product_id
                = result.input.items[k].product_id
           /\ transactionItemsTable[i].quantity
                = result.input.items[k].quantity
    /\ \A i \in NewTransactionItems :
         transactionItemsTable[i].transaction_id = result.id
    /\ DOMAIN productsTable = DOMAIN pre.products
    /\ \A p \in DOMAIN productsTable :
         productsTable[p] =
           [pre.products[p] EXCEPT !.stock_quantity =
              @ - CartQuantity(result.input.items, p, 1)]
    /\ customersTable = pre.customers
    /\ suppliersTable = pre.suppliers
    /\ servicesTable = pre.services
    /\ serviceItemsTable = pre.serviceItems
    /\ invoicesTable = pre.invoices

\* A cart of two lines, for products 1 and 2, was sold.
TwoLineCartSold ==
  /\ PosSale
  /\ Len(result.input.items) = 2
  /\ result.input.items[1].product_id # result.input.items[2].product_id
  /\ productsTable[1].stock_quantity < pre.products[1].stock_quantity
  /\ productsTable[2].stock_quantity < pre.products[2].stock_quantity

\* The sum of total_price over the stored items of transaction t.
ItemsSum(t) ==
  LET items == {i \in DOMAIN transactionItemsTable :
                  transactionItemsTable[i].transaction_id = t}
  IN SumOver(items, [i \in items |-> transactionItemsTable[i].total_price])

\* The service charge of the last sale, as the handler takes it: nothing
\* without a service; the one given, when one is given and is not 0; or else
\* the final cost of the service named; or else nothing.
SaleServiceCharge ==
  IF ~Has(result.input, "service_id") THEN 0
  ELSE IF Has(result.input, "service_charge")
          /\ result.input.service_charge # 0
  THEN result.input.service_charge
  ELSE IF pre.services[result.input.service_id].final_cost = NULL THEN 0
  ELSE pre.services[result.input.service_id].final_cost

\* C18, as stated: the stored total_amount of a transaction made by
\* createPosTransaction less the sum of its stored items' total_price is the
\* service charge.
PosTotalExceedsItemsByServiceCharge ==
  PosSale =>
    transactionsTable[result.id].total_amount - ItemsSum(result.id)
      = SaleServiceCharge

\* The distance between two integers.
Distance(x, y) == IF x < y THEN y - x ELSE x - y

\* C18, amended: the stored total_amount is the sum of the stored items'
\* total_price plus the service charge the handler applied plus the tax on
\* both, within half a cent: it exceeds the items' sum by service charge and
\* tax, and the charge applied is the service's final_cost when the
\* service_charge given is 0.  (The tax on
\* an amount of whole cents is amount x tax_rate: a hundred times the tax is
\* the amount in cents times the rate in units of 10^-5.)
PosTotalExceedsItemsByServiceChargeAndTax ==
  PosSale =>
    LET amount == ItemsSum(result.id) + SaleServiceCharge IN
    Distance(100 * (transactionsTable[result.id].total_amount - amount),
             (amount \div Cent) * result.input.tax_rate)
      <= 100 * (Cent \div 2)

\* A sale with a repair attached and tax on it: the total exceeds the items'
\* sum by more than the service charge.
TaxedSaleWithService ==
  /\ PosSale
  /\ Has(result.input, "service_id")
  /\ result.input.tax_rate > 0
  /\ Len(result.input.items) > 0
  /\ SaleServiceCharge > 0
  /\ transactionsTable[result.id].total_amount - ItemsSum(result.id)
       > SaleServiceCharge

(* ------------------- invoice-from-service specification ---------------- *)
GenerateServiceItemInputs ==
  {[service_id |-> 1, product_id |-> 1, quantity |-> q,
    unit_price |-> 255 * Cent] : q \in 1..MaxQty}

\* One customer, one product and one repair, its parts and its price, and
\* the invoices made from it.
NextGenerate ==
  \/ Starting(Main, serial.customers < 1)
       /\ \E input \in StockCustomerInputs : createCustomer(Main, input)
  \/ Starting(Main, serial.products < 1)
       /\ \E input \in SaleProductInputs : createProduct(Main, input)
  \/ \E input \in StockServiceInputs : createService(Main, input)
  \/ \E input \in InvoiceServiceUpdates : updateService(Main, input)
  \/ \E input \in GenerateServiceItemInputs :
       createServiceItem(Main, input)
  \/ \E id \in 1..MaxServiceItems : deleteServiceItem(Main, id)
  \/ \E s \in 1..(MaxServices + 1) : generateInvoiceFromService(Main, s)

SpecGenerate == Init /\ [][NextGenerate]_vars

\* The parts of service s that were stored when the last call started, and
\* the sum of their total_price.
PartsBefore(s) ==
  {i \in DOMAIN pre.serviceItems : pre.serviceItems[i].service_id = s}

PartsSumBefore(s) ==
  SumOver(PartsBefore(s),
          [i \in PartsBefore(s) |-> pre.serviceItems[i].total_price])

LaborBefore(s) ==
  IF pre.services[s].final_cost = NULL THEN 0 ELSE pre.services[s].final_cost

\* C19: generateInvoiceFromService(serviceId) for a stored service stores
\* one new invoice, with the service's customer, service_id = serviceId,
\* subtotal = the sum of total_price over the service's stored items plus
\* the service's final_cost (0 when null), tax_amount 0, total_amount =
\* subtotal and status 'draft'; for a service that is not stored it fails
\* and stores no invoice.
GeneratedInvoiceSumsPartsAndLabor ==
  (result.op = "generateInvoiceFromService") =>
    IF result.input.serviceId \in DOMAIN pre.services
    THEN /\ result.err = "none"
         /\ DOMAIN invoicesTable = DOMAIN pre.invoices \cup {result.id}
         /\ result.id \notin DOMAIN pre.invoices
         /\ \A i \in DOMAIN pre.invoices : invoicesTable[i] = pre.invoices[i]
         /\ invoicesTable[result.id].customer_id
              = pre.services[result.input.serviceId].customer_id
         /\ invoicesTable[result.id].service_id = result.input.serviceId
         /\ invoicesTable[result.id].subtotal
              = PartsSumBefore(result.input.serviceId)
                  + LaborBefore(result.input.serviceId)
         /\ invoicesTable[result.id].tax_amount = 0
         /\ invoicesTable[result.id].total_amount
              = invoicesTable[result.id].subtotal
         /\ invoicesTable[result.id].status = "draft"
    ELSE /\ result.err = "not_found"
         /\ invoicesTable = pre.invoices

\* An invoice was made for a repair with a part and a price.
InvoiceOfPartsAndLabor ==
  /\ result.op = "generateInvoiceFromService" /\ result.err = "none"
  /\ PartsSumBefore(result.input.serviceId) > 0
  /\ LaborBefore(result.input.serviceId) > 0
  /\ invoicesTable[result.id].subtotal
       > PartsSumBefore(result.input.serviceId)

(* ------------------------ create specification ------------------------- *)
CreateServiceInputs ==
  {[customer_id |-> c, device_type |-> "phone",
    problem_description |-> "broken"] : c \in {1, 2}}

CreateTransactionInputs ==
  {[type |-> "purchase", total_amount |-> 50 * Unit] @@ s @@ c :
     s \in Optional("supplier_id", {1}),
     c \in Optional("customer_id", {1})}

CreateInvoiceInputs ==
  {[customer_id |-> c, invoice_number |-> "INV-001",
    subtotal |-> 50 * Unit] @@ s @@ t :
     c \in {1, 2},
     s \in Optional("service_id", {1}),
     t \in Optional("transaction_id", {1})}

\* The create calls follow one another; while one of them runs, another
\* caller may delete a customer or the supplier.
NextCreate ==
  \/ \E input \in StockCustomerInputs :
       Starting(Main, serial.customers < 1) /\ createCustomer(Main, input)
  \/ \E input \in DeleteSupplierInputs :
       Starting(Main, serial.suppliers < 1) /\ createSupplier(Main, input)
  \/ \E input \in CreateServiceInputs :
       Starting(Main, serial.services < 1) /\ createService(Main, input)
  \/ \E input \in CreateTransactionInputs :
       Starting(Main, serial.transactions < 1)
         /\ createTransaction(Main, input)
  \/ \E input \in CreateInvoiceInputs :
       Starting(Main, serial.invoices < 2) /\ createInvoice(Main, input)
  \/ \E id \in 1..MaxCustomers : ~Free(Main) /\ deleteCustomer(1, id)
  \/ \E id \in 1..MaxSuppliers : ~Free(Main) /\ deleteSupplier(1, id)

SpecCreate == Init /\ [][NextCreate]_vars

\* Field f of the last call's input names a record that was not in table
\* when the call started.
NamesMissing(f, table) ==
  Has(result.input, f) /\ result.input[f] \notin DOMAIN table

\* A record the last create call must find was not stored when the call
\* started.
ReferenceMissing ==
  IF result.op = "createService"
  THEN NamesMissing("customer_id", pre.customers)
  ELSE IF result.op = "createTransaction"
  THEN \/ NamesMissing("supplier_id", pre.suppliers)
       \/ NamesMissing("customer_id", pre.customers)
  ELSE \/ NamesMissing("customer_id", pre.customers)
       \/ NamesMissing("service_id", pre.services)

\* Every record the last create call names is stored now, so that it was
\* stored all through the call: an id that was deleted is not given again.
ReferencesKept ==
  /\ ~NamesMissing("customer_id", customersTable)
  /\ ~NamesMissing("supplier_id", suppliersTable)
  /\ ~NamesMissing("service_id", servicesTable)
  /\ ~NamesMissing("transaction_id", transactionsTable)

\* The table the last create call inserts into, now and before the call.
CreatedIn ==
  IF result.op = "createService" THEN servicesTable
  ELSE IF result.op = "createTransaction" THEN transactionsTable
  ELSE invoicesTable

CreatedInBefore ==
  IF result.op = "createService" THEN pre.services
  ELSE IF result.op = "createTransaction" THEN pre.transactions
  ELSE pre.invoices

\* The tables that only the create calls of this specification write.
Created ==
  [services |-> servicesTable, transactions |-> transactionsTable,
   invoices |-> invoicesTable]

CreatedBefore ==
  [services |-> pre.services, transactions |-> pre.transactions,
   invoices |-> pre.invoices]

\* C20: createService, createTransaction and createInvoice fail with the
\* not-found error, and insert nothing, when a customer, supplier or service
\* their input names is not stored; when every record the input names is
\* stored they insert one row, under an id no row of the table had, and
\* write nothing else.
CreateChecksReferences ==
  (result.op \in {"createService", "createTransaction", "createInvoice"}) =>
    IF ReferenceMissing
    THEN result.err = "not_found" /\ Created = CreatedBefore
    ELSE ReferencesKept =>
         /\ result.err = "none"
         /\ result.id \notin DOMAIN CreatedInBefore
         /\ DOMAIN CreatedIn = DOMAIN CreatedInBefore \cup {result.id}
         /\ \A t \in DOMAIN Created :
              /\ DOMAIN Created[t]
                   \subseteq DOMAIN CreatedBefore[t] \cup {result.id}
              /\ \A i \in DOMAIN CreatedBefore[t] :
                   Created[t][i] = CreatedBefore[t][i]
         /\ productsTable = pre.products

\* createInvoice names a stored customer and a service that is not stored,
\* and is refused.
InvoiceForMissingService ==
  /\ result.op = "createInvoice" /\ result.err = "not_found"
  /\ result.input.customer_id \in DOMAIN pre.customers
  /\ NamesMissing("service_id", pre.services)
  /\ invoicesTable = pre.invoices

(* ------------------------ low-stock specification ---------------------- *)
LowStockProductInputs ==
  {[name |-> "part", purchase_price |-> 100 * Cent,
    selling_price |-> 250 * Cent, stock_quantity |-> s] @@ m :
     s \in 0..MaxQty, m \in Optional("min_stock_level", {1})}

NextLowStock ==
  \/ \E input \in StockCustomerInputs :
       Starting(Main, serial.customers < 1) /\ createCustomer(Main, input)
  \/ \E input \in LowStockProductInputs :
       Starting(Main, serial.products < 2) /\ createProduct(Main, input)
  \/ \E input \in StockServiceInputs :
       Starting(Main, serial.services < 1) /\ createService(Main, input)
  \/ \E input \in StockTransactionInputs :
       Starting(Main, serial.transactions < 1)
         /\ createTransaction(Main, input)
  \/ \E input \in RaceTransactionItemInputs :
       Starting(Main, serial.transactionItems < 2)
         /\ createTransactionItem(Main, input)
  \/ \E input \in RaceServiceItemInputs :
       Starting(Main, serial.serviceItems < 2)
         /\ createServiceItem(Main, input)
  \/ \E id \in 1..2 : deleteServiceItem(Main, id)
  \/ \E input \in PosProductUpdates : updateProduct(Main, input)
  \/ getLowStockProducts(Main)

SpecLowStock == Init /\ [][NextLowStock]_vars

\* C21: getLowStockProducts returns exactly the stored products whose
\* stock_quantity is strictly below their min_stock_level, each as it is
\* stored; a product whose stock equals its minimum is not returned.
LowStockIsStrictlyBelowMinimum ==
  (result.op = "getLowStockProducts") =>
    /\ result.err = "none"
    /\ DOMAIN result.rows \subseteq DOMAIN productsTable
    /\ \A p \in DOMAIN productsTable :
         /\ (p \in DOMAIN result.rows) <=>
              (productsTable[p].stock_quantity
                 < productsTable[p].min_stock_level)
         /\ (p \in DOMAIN result.rows) => result.rows[p] = productsTable[p]
    /\ Snapshot = pre

\* After a service item took a unit, product 1 stands exactly at its minimum
\* and is left out, while product 2 is below its minimum and is returned.
AtMinimumLeftOut ==
  /\ result.op = "getLowStockProducts"
  /\ 1 \in DOMAIN productsTable /\ 2 \in DOMAIN productsTable
  /\ productsTable[1].min_stock_level = 1
  /\ productsTable[1].stock_quantity = 1
  /\ \E i \in DOMAIN serviceItemsTable : serviceItemsTable[i].product_id = 1
  /\ DOMAIN result.rows = {2}

(* --------------------- invoice-number specification -------------------- *)
NextNumber ==
  \/ \E input \in StockCustomerInputs :
       Starting(Main, serial.customers < 1) /\ createCustomer(Main, input)
  \/ \E input \in StockServiceInputs :
       Starting(Main, serial.services < 1) /\ createService(Main, input)
  \/ \E input \in InvoiceServiceUpdates : updateService(Main, input)
  \/ \E serviceId \in {1, 2} : generateInvoiceFromService(Main, serviceId)
  \/ Tick

SpecNumber == Init /\ [][NextNumber]_vars

\* The stored invoices that generateInvoiceFromService made.
GeneratedInvoices ==
  {i \in DOMAIN invoicesTable : invoicesTable[i].notes = "auto-generated"}

\* C22: no two stored invoices made by generateInvoiceFromService carry the
\* same invoice_number, also when both were made for the same service at the
\* same clock reading.
GeneratedInvoiceNumbersUnique ==
  \A i, j \in GeneratedInvoices :
    i # j => invoicesTable[i].invoice_number # invoicesTable[j].invoice_number

(* --------------------- service-charge specification -------------------- *)
\* The repair is completed, with or without a final cost of 20.00.
ChargeServiceUpdates ==
  {[id |-> 1, status |-> "completed"] @@ f :
     f \in Optional("final_cost", {20 * Unit})}

\* service_charge left out, 0 or 15.00; with or without a service; an empty
\* cart or one line.
ChargeInputs ==
  {[customer_id |-> 1, items |-> i, tax_rate |-> 0] @@ s @@ g :
     i \in {<<>>, <<SaleLine(1, 1)>>},
     s \in Optional("service_id", {1}),
     g \in Optional("service_charge", {0, 15 * Unit})}

NextCharge ==
  \/ \E input \in StockCustomerInputs :
       Starting(Main, serial.customers < 1) /\ createCustomer(Main, input)
  \/ \E input \in SaleProductInputs :
       Starting(Main, serial.products < 1) /\ createProduct(Main, input)
  \/ \E input \in StockServiceInputs :
       Starting(Main, serial.services < 1) /\ createService(Main, input)
  \/ \E input \in ChargeServiceUpdates : updateService(Main, input)
  \/ \E input \in ChargeInputs : createPosTransaction(Main, input)

SpecCharge == Init /\ [][NextCharge]_vars

\* C23: a successful createPosTransaction returns as service charge the
\* service_charge it was given, 0 included, when a service_id is given; the
\* service's final_cost, or 0 if that is null, when service_charge is left
\* out; and 0 when no service_id is given.
PosServiceChargeIsExplicitOrFinalCost ==
  (result.op = "createPosTransaction" /\ result.err = "none") =>
    result.service_charge = Number(
      IF ~Has(result.input, "service_id") THEN 0
      ELSE IF Has(result.input, "service_charge")
      THEN result.input.service_charge
      ELSE IF pre.services[result.input.service_id].final_cost = NULL THEN 0
      ELSE pre.services[result.input.service_id].final_cost)

(* ------------------------ ledger specification ------------------------- *)
NextLedger ==
  \/ \E input \in StockCustomerInputs :
       Starting(Main, serial.customers < 1) /\ createCustomer(Main, input)
  \/ \E input \in RaceProductInputs :
       Starting(Main, serial.products < 1) /\ createProduct(Main, input)
  \/ \E input \in StockServiceInputs :
       Starting(Main, serial.services < 1) /\ createService(Main, input)
  \/ \E input \in StockTransactionInputs :
       Starting(Main, serial.transactions < 2)
         /\ createTransaction(Main, input)
  \/ \E input \in RaceTransactionItemInputs :
       Starting(Main, serial.transactionItems < 2)
         /\ createTransactionItem(Main, input)
  \/ \E input \in RaceServiceItemInputs :
       Starting(Main, serial.serviceItems < 2)
         /\ createServiceItem(Main, input)
  \/ \E id \in 1..2 : deleteServiceItem(Main, id)
  \/ \E input \in RacePosInputs :
       Starting(Main, serial.transactions < 2
                        /\ serial.transactionItems < 2)
         /\ createPosTransaction(Main, input)

SpecLedger == Init /\ [][NextLedger]_vars

\* The quantities of the stored transaction items of product p on
\* transactions of one type.
ItemQuantity(p, type) ==
  LET items == {i \in DOMAIN transactionItemsTable :
                  /\ transactionItemsTable[i].product_id = p
                  /\ transactionsTable[
                       transactionItemsTable[i].transaction_id].type = type}
  IN SumOver(items, [i \in items |-> transactionItemsTable[i].quantity])

\* The quantities of the stored service items of product p.
PartQuantity(p) ==
  LET items == {i \in DOMAIN serviceItemsTable :
                  serviceItemsTable[i].product_id = p}
  IN SumOver(items, [i \in items |-> serviceItemsTable[i].quantity])

\* C24: with calls made one after the other and stock never set by
\* updateProduct, a product's stock_quantity is its initial stock, plus the
\* quantities of its stored purchase items, minus those of its stored sale
\* items, minus those of its stored service items.
StockEqualsLedger ==
  Free(Main) =>
    \A p \in DOMAIN productsTable :
      productsTable[p].stock_quantity =
        RaceInitialStock + ItemQuantity(p, "purchase")
          - ItemQuantity(p, "sale") - PartQuantity(p)

(* -------------------------- cart specification ------------------------- *)
CartInputs ==
  {[customer_id |-> 1, items |-> i, tax_rate |-> 0] :
     i \in UNION {[1..n -> {SaleLine(p, q) : p \in {1, 2}, q \in {1, 2}}] :
                  n \in 0..2}}

NextCart ==
  \/ \E input \in StockCustomerInputs :
       Starting(Main, serial.customers < 1) /\ createCustomer(Main, input)
  \/ \E input \in StockProductInputs :
       Starting(Main, serial.products < 2) /\ createProduct(Main, input)
  \/ \E input \in CartInputs :
       Starting(Main, serial.transactions < 2)
         /\ createPosTransaction(Main, input)

SpecCart == Init /\ [][NextCart]_vars

\* Line k of the last POS call's cart named a product that was not stored,
\* or asked for more than the product's stock, when the call started.
LineRefusable(k) ==
  LET line == result.input.items[k] IN
  \/ line.product_id \notin DOMAIN pre.products
  \/ line.quantity > pre.products[line.product_id].stock_quantity

\* C25: a createPosTransaction whose cart has a line on a product that is not
\* stored, or for more than that product's stock, fails and writes nothing,
\* also when the lines before it were valid.
PosInvalidLineWritesNothing ==
  (PosCall /\ \E k \in DOMAIN result.input.items : LineRefusable(k)) =>
    /\ result.err \in {"not_found", "insufficient_stock"}
    /\ Snapshot = pre

\* The first line was valid and the second asked for more than the stock:
\* the call was refused and nothing was written.
SecondLineRefused ==
  /\ PosCall
  /\ Len(result.input.items) = 2
  /\ ~LineRefusable(1)
  /\ result.input.items[2].product_id \in DOMAIN pre.products
  /\ LineRefusable(2)
  /\ result.err = "insufficient_stock"
  /\ Snapshot = pre

\* C26: createPosTransaction refuses, with the insufficient-stock error, a
\* cart whose lines on one product together ask for more than the product's
\* stock, also when no single line does.
PosRefusesSummedExcess ==
  (/\ PosCall
   /\ result.input.customer_id \in DOMAIN pre.customers
   /\ \A k \in DOMAIN result.input.items :
        result.input.items[k].product_id \in DOMAIN pre.products
   /\ \E p \in DOMAIN pre.products :
        CartQuantity(result.input.items, p, 1)
          > pre.products[p].stock_quantity) =>
    result.err = "insufficient_stock"

(* -------------------- overlapping-deletes specification ---------------- *)
\* One service item is stored by calls made one after the other; then the
\* two callers each delete once, statement by statement.
NextRestore ==
  \/ \E input \in StockCustomerInputs :
       Setup /\ Starting(Main, serial.customers < 1)
         /\ createCustomer(Main, input)
  \/ \E input \in RaceProductInputs :
       Setup /\ Starting(Main, serial.products < 1)
         /\ createProduct(Main, input)
  \/ \E input \in StockServiceInputs :
       Setup /\ Starting(Main, serial.services < 1)
         /\ createService(Main, input)
  \/ \E input \in RaceServiceItemInputs :
       Setup /\ Starting(Main, serial.serviceItems < 1)
         /\ createServiceItem(Main, input)
  \/ \E c \in Callers, id \in {1, 2} :
       OneCall(c) /\ deleteServiceItem(c, id)

SpecRestore == Init /\ [][NextRestore]_vars

\* Service item 1 was stored, both callers deleted it and both calls have
\* ended.
BothDeletesEnded ==
  /\ serial.serviceItems = 1
  /\ \A c \in Callers :
       /\ At(c, "done")
       /\ calls[c].op = "deleteServiceItem"
       /\ calls[c].input.id = 1

\* C27: when two deleteServiceItem calls for the same service item of
\* quantity Q overlap, the stock is restored once: after both have ended it
\* is the stock before the deletes plus Q, which is the stock the product had
\* before the item was created.
OverlappingDeletesRestoreOnce ==
  BothDeletesEnded => productsTable[1].stock_quantity = RaceInitialStock

(* ------------------ overlapping-adjustments specification -------------- *)
\* A product, a repair and one transaction, a purchase or a sale, are stored
\* by calls made one after the other; then the two callers each add an item,
\* statement by statement.
NextAdjust ==
  \/ \E input \in StockCustomerInputs :
       Setup /\ Starting(Main, serial.customers < 1)
         /\ createCustomer(Main, input)
  \/ \E input \in RaceProductInputs :
       Setup /\ Starting(Main, serial.products < 1)
         /\ createProduct(Main, input)
  \/ \E input \in StockServiceInputs :
       Setup /\ Starting(Main, serial.services < 1)
         /\ createService(Main, input)
  \/ \E input \in StockTransactionInputs :
       Setup /\ Starting(Main, serial.transactions < 1)
         /\ createTransaction(Main, input)
  \/ \E c \in Callers :
       \/ \E input \in RaceTransactionItemInputs :
            OneCall(c) /\ createTransactionItem(c, input)
       \/ \E input \in RaceServiceItemInputs :
            OneCall(c) /\ createServiceItem(c, input)

SpecAdjust == Init /\ [][NextAdjust]_vars

\* Caller c's call ended well and added to the stock (a purchase item).
Purchased(c) ==
  /\ At(c, "done") /\ calls[c].ret.err = "none"
  /\ calls[c].op = "createTransactionItem" /\ calls[c].type = "purchase"

\* Caller c's call ended well and took from the stock (a sale item or a
\* service item).
Took(c) ==
  /\ At(c, "done") /\ calls[c].ret.err = "none"
  /\ \/ calls[c].op = "createTransactionItem" /\ calls[c].type = "sale"
     \/ calls[c].op = "createServiceItem"

\* C28: when a successful purchase item of quantity A and a successful sale
\* item or service item of quantity B on the same product overlap, neither
\* adjustment is lost: after both calls have ended the stock is the initial
\* stock + A - B.
OverlappingAdjustmentsBothCount ==
  \A c, d \in Callers :
    (Purchased(c) /\ Took(d)) =>
      productsTable[1].stock_quantity =
        RaceInitialStock + calls[c].input.quantity
          - calls[d].input.quantity

(* ----------------------- integrity specification ----------------------- *)
IntegrityTransactionItemInputs ==
  {[transaction_id |-> 1, product_id |-> p, quantity |-> 1,
    unit_price |-> 250 * Cent] : p \in {1, 2}}

IntegrityServiceItemInputs ==
  {[service_id |-> 1, product_id |-> p, quantity |-> 1,
    unit_price |-> 250 * Cent] : p \in {1, 2}}

IntegrityInvoiceInputs ==
  {[customer_id |-> 1, invoice_number |-> "INV-001",
    subtotal |-> 50 * Unit] @@ s @@ t :
     s \in Optional("service_id", {1}),
     t \in Optional("transaction_id", {1})}

\* Every record is created and deleted by calls that follow one another.
NextIntegrity ==
  \/ \E input \in StockCustomerInputs :
       Starting(Main, serial.customers < 2) /\ createCustomer(Main, input)
  \/ \E input \in DeleteSupplierInputs :
       Starting(Main, serial.suppliers < 1) /\ createSupplier(Main, input)
  \/ \E input \in RaceProductInputs :
       Starting(Main, serial.products < 2) /\ createProduct(Main, input)
  \/ \E input \in CreateServiceInputs :
       Starting(Main, serial.services < 1) /\ createService(Main, input)
  \/ \E input \in CreateTransactionInputs :
       Starting(Main, serial.transactions < 1)
         /\ createTransaction(Main, input)
  \/ \E input \in IntegrityTransactionItemInputs :
       Starting(Main, serial.transactionItems < 1)
         /\ createTransactionItem(Main, input)
  \/ \E input \in IntegrityServiceItemInputs :
       Starting(Main, serial.serviceItems < 1)
         /\ createServiceItem(Main, input)
  \/ \E input \in IntegrityInvoiceInputs :
       Starting(Main, serial.invoices < 1) /\ createInvoice(Main, input)
  \/ \E id \in {1, 2} : deleteCustomer(Main, id)
  \/ \E id \in {1} : deleteSupplier(Main, id)
  \/ \E id \in {1, 2} : deleteProduct(Main, id)
  \/ \E id \in {1} : deleteServiceItem(Main, id)

SpecIntegrity == Init /\ [][NextIntegrity]_vars

\* Column f of row names no record, or a record of table.
RefersInto(row, f, table) == row[f] = NULL \/ row[f] \in DOMAIN table

\* C29: after any sequence of handler calls, deletions included, every
\* stored service and invoice references a stored customer, every stored
\* transaction references a stored customer and supplier where it names one,
\* and every stored service item and transaction item references a stored
\* product and a stored service or transaction.
ReferentialIntegrity ==
  /\ \A i \in DOMAIN servicesTable :
       servicesTable[i].customer_id \in DOMAIN customersTable
  /\ \A i \in DOMAIN invoicesTable :
       invoicesTable[i].customer_id \in DOMAIN customersTable
  /\ \A i \in DOMAIN transactionsTable :
       /\ RefersInto(transactionsTable[i], "customer_id", customersTable)
       /\ RefersInto(transactionsTable[i], "supplier_id", suppliersTable)
  /\ \A i \in DOMAIN serviceItemsTable :
       /\ serviceItemsTable[i].product_id \in DOMAIN productsTable
       /\ serviceItemsTable[i].service_id \in DOMAIN servicesTable
  /\ \A i \in DOMAIN transactionItemsTable :
       /\ transactionItemsTable[i].product_id \in DOMAIN productsTable
       /\ transactionItemsTable[i].transaction_id \in DOMAIN transactionsTable

\* deleteProduct was called on a product that a stored item names: the
\* product is still stored.
ReferencedProductKept ==
  /\ result.op = "deleteProduct"
  /\ \E i \in DOMAIN pre.transactionItems :
       pre.transactionItems[i].product_id = result.input.id
  /\ result.input.id \in DOMAIN productsTable

(* ------------------------ summary specification ------------------------ *)
\* Caller c, which has not called yet, calls now that every other call has
\* returned and caller d has not called.
CallsBefore(c, d) ==
  Free(c) => Quiet /\ At(c, "idle") /\ At(d, "idle")

\* Caller c, which has not called yet, calls now that every other call has
\* returned.
CallsLast(c) == Free(c) => Quiet /\ At(c, "idle")

\* The main caller stores a customer, a product, a repair and a purchase;
\* then caller 1 sells at the counter, or does not, and right after it
\* caller 2 reads a summary back.
NextSummary ==
  \/ \E input \in StockCustomerInputs :
       Setup /\ Starting(Main, serial.customers < 1)
         /\ createCustomer(Main, input)
  \/ \E input \in SaleProductInputs :
       Setup /\ Starting(Main, serial.products < 2)
         /\ createProduct(Main, input)
  \/ \E input \in StockServiceInputs :
       Setup /\ Starting(Main, serial.services < 1)
         /\ createService(Main, input)
  \/ \E input \in ChargeServiceUpdates :
       Setup /\ updateService(Main, input)
  \/ \E input \in StockTransactionInputs :
       Setup /\ Starting(Main, serial.transactions < 1)
         /\ createTransaction(Main, input)
  \/ \E input \in ChargeInputs \cup
         {[customer_id |-> 1, tax_rate |-> 0,
           items |-> <<SaleLine(1, 1), SaleLine(2, 1)>>]} :
       CallsBefore(1, 2) /\ Starting(1, serial.transactions < 1)
         /\ createPosTransaction(1, input)
  \/ \E transactionId \in {1, 2} :
       CallsLast(2) /\ getPosSummary(2, transactionId)

SpecSummary == Init /\ [][NextSummary]_vars

\* C30: getPosSummary(id), called right after the createPosTransaction that
\* made transaction id, returns the items, subtotal, service_charge,
\* tax_amount and total_amount that createPosTransaction returned; for an id
\* that is not a stored sale transaction with a customer it returns null.
PosSummaryMatchesSale ==
  (At(2, "done") /\ calls[2].op = "getPosSummary") =>
    LET sale == calls[1].ret
        summary == calls[2].ret
        id == summary.input.transactionId
    IN
    /\ (/\ sale.op = "createPosTransaction"
        /\ sale.err = "none"
        /\ id = sale.id) =>
         /\ summary.found
         /\ summary.items = sale.items
         /\ summary.subtotal = sale.subtotal
         /\ summary.service_charge = sale.service_charge
         /\ summary.tax_amount = sale.tax_amount
         /\ summary.total_amount = sale.total_amount
    /\ ~(/\ id \in DOMAIN transactionsTable
         /\ transactionsTable[id].type = "sale"
         /\ transactionsTable[id].customer_id # NULL) =>
         ~summary.found

====
